---- MODULE Spec2Model ----
(***************************************************************************)
(* Provider registry, fallback execution, health probing and the enhance   *)
(* command of claude-prompt-cli, as a state machine.                       *)
(*                                                                         *)
(* JavaScript runs these handlers on one thread: a handler is suspended    *)
(* only at an await.  The registry is mutated by registerProvider and      *)
(* setDefaultProvider alone, which are synchronous, so every model action  *)
(* is one synchronous call or one iteration of an awaited loop.            *)
(***************************************************************************)
EXTENDS Integers, Sequences, FiniteSets, TLC

(***************************************************************************)
(* Values                                                                  *)
(***************************************************************************)
\* JavaScript null / undefined, where a name is expected.
Null == "null"

\* Provider names handed to registerProvider / getProvider / --provider.
\* Names are non-empty strings: a name is falsy only when it is absent.
Names == {"ollama", "huggingface", "ollama2"}

\* The provider classes of the repository.
OllamaProvider == "OllamaProvider"
HuggingFaceProvider == "HuggingFaceProvider"
Classes == {OllamaProvider, HuggingFaceProvider}

\* config.apiKey || process.env.HF_TOKEN: absent, present but not of the
\* form hf_... with at least 20 characters, present and well formed.
KeyMalformed == "key_malformed"
KeyWellFormed == "hf_well_formed"
ApiKeys == {Null, KeyMalformed, KeyWellFormed}

\* The registerProvider calls considered: the two initializeProviders makes
\* ("ollama", "huggingface", the latter under each state of the API key) and a
\* second local daemon registered under another name.
Registrations ==
    {[name |-> "ollama", class |-> OllamaProvider, apiKey |-> Null],
     [name |-> "ollama2", class |-> OllamaProvider, apiKey |-> Null]}
    \cup {[name |-> "huggingface", class |-> HuggingFaceProvider, apiKey |-> k] :
             k \in ApiKeys}

\* Map.get's undefined, as a provider value.
NoProvider == [name |-> Null, class |-> Null, apiKey |-> Null]

\* The enhance command's options when none is given, and its result before it
\* has one.
NoOptions == [provider |-> Null, stream |-> FALSE, mode |-> Null, useAI |-> TRUE]
NoOutcome == [kind |-> Null, by |-> Null]

\* Error messages, by the text that identifies them.
ErrNotFound == "Provider not found. Available providers:"
ErrOperation == "operation threw"
ErrOllamaDown == "Ollama is not running. Please start Ollama with: ollama serve"
ErrKeyFormat == "Invalid HuggingFace API key format"
ErrComplete == "completion failed"
ErrNoHealthy == "No healthy providers available"

VARIABLES
    providers,        \* registry.providers: a Map, as its entries in insertion order
    defaultProvider,  \* registry.defaultProvider: a name or Null
    backend,          \* environment: per class, whether its backend answers
    last,             \* the last completed call or step, with the registry before it
    xpc, xpref, xidx, xerrors, xcalls, xresult, xpre, xcaller,   \* executeWithFallback
    hpc, hidx, health, hprobes, hcaller,                         \* checkHealth
    cpc, cidx, results, ccalls,                                  \* compareProviders
    epc, eopts, eprovider, ecalled, eerror, eoutcome,            \* the enhance command
    now,              \* the clock (Date.now()), in half hours
    usage,            \* per provider class: this.usage
    installed,        \* the models the local daemon has (GET /api/tags)
    availableModels,  \* OllamaProvider.availableModels: NotListed, or the models listed on first use
    hfcache,          \* HuggingFaceProvider: this.cache, least recently used first
    file,             \* the cache file cache-data.json
    pending,          \* the file operations in flight
    cleared,          \* how the last clearCache ended, until the cache is used again
    evicted,          \* the entry the last set dropped from this.cache
    unhandled,        \* a cache I/O error escaped every catch
    uses,             \* the keys of this.cache, least recently used (get or set) first
    trip,             \* a load followed at once by a persist: its stage, the file before
    impl,             \* the class whose cache this process runs
    calls             \* the complete() calls in flight, by slot

regvars == <<providers, defaultProvider>>
xvars == <<xpc, xpref, xidx, xerrors, xcalls, xresult, xpre, xcaller>>
hvars == <<hpc, hidx, health, hprobes, hcaller>>
cvars == <<cpc, cidx, results, ccalls>>
evars == <<epc, eopts, eprovider, ecalled, eerror, eoutcome>>
kvars == <<hfcache, file, pending, cleared, evicted, unhandled, uses, trip, impl>>
pvars == <<now, usage, installed, availableModels, kvars, calls>>
rvars == <<providers, defaultProvider, backend, last, xvars, hvars, cvars, evars>>
vars == <<rvars, pvars>>

(***************************************************************************)
(* Insertion-ordered maps (Map, and plain objects with string keys): a     *)
(* sequence of records with a name field, one per key.                     *)
(***************************************************************************)
Keys(m) == [i \in 1..Len(m) |-> m[i].name]
KeySet(m) == {m[i].name : i \in 1..Len(m)}
Has(m, n) == \E i \in 1..Len(m) : m[i].name = n
IndexOf(m, n) == CHOOSE i \in 1..Len(m) : m[i].name = n

\* Map.prototype.set: a present key keeps its place and takes the new value.
MapSet(m, v) ==
    IF Has(m, v.name) THEN [m EXCEPT ![IndexOf(m, v.name)] = v] ELSE Append(m, v)

\* Map.prototype.get: undefined for an absent key.
MapGet(m, n) == IF Has(m, n) THEN m[IndexOf(m, n)] ELSE NoProvider

Snapshot == [providers |-> providers, defaultProvider |-> defaultProvider]
EmptyRegistry == [providers |-> <<>>, defaultProvider |-> Null]

Step(op) ==
    [op |-> op, name |-> Null, raised |-> FALSE, threw |-> FALSE,
     value |-> NoProvider, available |-> <<>>, pre |-> Snapshot]

(***************************************************************************)
(* Provider constructors                                                   *)
(***************************************************************************)
\* new ProviderClass(config) throws: only HuggingFaceProvider does, when no
\* API key is configured.  OllamaProvider's constructor only assigns fields.
ConstructorThrows(class, apiKey) ==
    class = HuggingFaceProvider /\ apiKey = Null

(***************************************************************************)
(* Registry: synchronous calls                                             *)
(***************************************************************************)
\* No handler is suspended at an await.
NoTask ==
    /\ xpc \notin {"preferred", "others"}
    /\ hpc # "loop"
    /\ cpc # "loop"
    /\ epc = "idle"        \* one command per process: the CLI exits after it

ResetExec ==
    /\ xpc' = "idle" /\ xpref' = Null /\ xidx' = 1 /\ xerrors' = <<>>
    /\ xcalls' = <<>> /\ xresult' = Null /\ xpre' = EmptyRegistry /\ xcaller' = "api"
ResetHealth ==
    /\ hpc' = "idle" /\ hidx' = 1 /\ health' = <<>> /\ hprobes' = <<>>
    /\ hcaller' = "api"
ResetCompare ==
    /\ cpc' = "idle" /\ cidx' = 1 /\ results' = <<>> /\ ccalls' = <<>>
ResetEnhance ==
    /\ epc' = "idle" /\ eopts' = NoOptions /\ eprovider' = NoProvider
    /\ ecalled' = Null /\ eerror' = Null /\ eoutcome' = NoOutcome

\* Mutant of DefaultAfterRegister: every registration takes the default over.
DefaultAfterRegisterAlways(def, name) == name

\* registerProvider's "if (!this.defaultProvider) this.defaultProvider = name".
DefaultAfterRegister(def, name) == IF def = Null THEN name ELSE def

registerProvider(name, class, apiKey) ==
    /\ UNCHANGED pvars
    /\ NoTask
    /\ IF ConstructorThrows(class, apiKey)
       THEN /\ UNCHANGED regvars          \* caught: console.warn
            /\ last' = [Step("registerProvider") EXCEPT !.name = name, !.threw = TRUE]
       ELSE /\ providers' = MapSet(providers,
                                   [name |-> name, class |-> class, apiKey |-> apiKey])
            /\ defaultProvider' = DefaultAfterRegister(defaultProvider, name)
            /\ last' = [Step("registerProvider") EXCEPT !.name = name]
    /\ ResetExec /\ ResetHealth /\ ResetCompare /\ ResetEnhance
    /\ UNCHANGED backend

\* Mutant of SetDefaultAccepts: the has() check is missing.
SetDefaultAcceptsAny(m, name) == TRUE

\* setDefaultProvider's guard: it throws unless providers.has(name).
SetDefaultAccepts(m, name) == Has(m, name)

setDefaultProvider(name) ==
    /\ UNCHANGED pvars
    /\ NoTask
    /\ IF SetDefaultAccepts(providers, name)
       THEN /\ defaultProvider' = name
            /\ last' = [Step("setDefaultProvider") EXCEPT !.name = name]
       ELSE /\ UNCHANGED defaultProvider
            /\ last' = [Step("setDefaultProvider") EXCEPT !.name = name, !.raised = TRUE]
    /\ UNCHANGED <<providers, backend>>
    /\ ResetExec /\ ResetHealth /\ ResetCompare /\ ResetEnhance

\* Mutant of GetProvider: the "if (!provider) throw" is missing.
GetProviderUnchecked(m, def, name) ==
    [raised |-> FALSE, value |-> MapGet(m, IF name = Null THEN def ELSE name),
     available |-> <<>>]

\* getProvider(name): the value returned, or the error thrown with the list of
\* registered names it prints.
GetProvider(m, def, name) ==
    IF name = Null /\ def # Null
    THEN [raised |-> FALSE, value |-> MapGet(m, def), available |-> <<>>]
    ELSE IF MapGet(m, name) = NoProvider
         THEN [raised |-> TRUE, value |-> NoProvider, available |-> Keys(m)]
         ELSE [raised |-> FALSE, value |-> MapGet(m, name), available |-> <<>>]

getProvider(name) ==
    /\ UNCHANGED pvars
    /\ NoTask
    /\ LET g == GetProvider(providers, defaultProvider, name)
       IN last' = [Step("getProvider") EXCEPT !.name = name, !.raised = g.raised,
                                              !.value = g.value,
                                              !.available = g.available]
    /\ UNCHANGED <<regvars, backend>>
    /\ ResetExec /\ ResetHealth /\ ResetCompare /\ ResetEnhance

(***************************************************************************)
(* Providers, as checkHealth and compareProviders see them                 *)
(***************************************************************************)
Ok == [ok |-> TRUE, error |-> Null]
Thrown(msg) == [ok |-> FALSE, error |-> msg]

\* provider.initialize().  OllamaProvider fetches /api/version (15 s abort
\* timer) and throws unless the daemon answers.  HuggingFaceProvider checks the
\* key's format and creates the cache directory: it sends nothing.
Initialize(p, b) ==
    IF p.class = OllamaProvider
    THEN IF b[OllamaProvider] = "up" THEN Ok ELSE Thrown(ErrOllamaDown)
    ELSE IF p.apiKey # KeyWellFormed THEN Thrown(ErrKeyFormat) ELSE Ok

\* provider.listModels().  OllamaProvider fetches /api/tags; HuggingFaceProvider
\* maps its three configured tiers.
ListModels(p, b) ==
    IF p.class = OllamaProvider
    THEN IF b[OllamaProvider] = "up" THEN Ok ELSE Thrown("Failed to list models")
    ELSE Ok

\* provider.complete(prompt, options), by outcome.  A local daemon that does not
\* answer makes it throw; everything else (model missing, HTTP error, cache hit)
\* leaves both outcomes open.
CompleteOutcomes(p, b) ==
    IF p.class = OllamaProvider /\ b[OllamaProvider] = "down"
    THEN {Thrown(ErrComplete)}
    ELSE {Ok, Thrown(ErrComplete)}

(***************************************************************************)
(* executeWithFallback(operation, options)                                 *)
(***************************************************************************)
\* "options.provider || this.defaultProvider".
PreferredProvider(optProvider, def) == IF optProvider # Null THEN optProvider ELSE def

\* Mutant of SkipInLoop: the loop does not skip the provider already tried.
SkipInLoopNever(name, pref) == FALSE

\* The for-of loop's "if (name === preferredProvider) continue".
SkipInLoop(name, pref) == name = pref

\* The call starts: errors = [], the preferred name is fixed, nothing awaited yet.
ExecStart(optProvider, caller) ==
    /\ xpref' = PreferredProvider(optProvider, defaultProvider)
    /\ xpc' = IF xpref' # Null THEN "preferred" ELSE "others"
    /\ xidx' = 1 /\ xerrors' = <<>> /\ xcalls' = <<>> /\ xresult' = Null
    /\ xpre' = Snapshot /\ xcaller' = caller

executeWithFallback(optProvider) ==
    /\ UNCHANGED pvars
    /\ NoTask
    /\ ExecStart(optProvider, "api")
    /\ last' = Step("executeWithFallback")
    /\ ResetHealth /\ ResetCompare /\ ResetEnhance
    /\ UNCHANGED <<regvars, backend>>

\* Mutant of ExecCall: the catch drops the provider that threw from the registry.
ExecCallEvicting(name, ok, continueAt) ==
    /\ xcalls' = Append(xcalls, [provider |-> name, ok |-> ok])
    /\ IF ok
       THEN /\ xpc' = "returned"
            /\ xresult' = name
            /\ UNCHANGED <<xerrors, regvars>>
       ELSE /\ xpc' = continueAt
            /\ xerrors' = Append(xerrors, [provider |-> name, error |-> ErrOperation])
            /\ providers' = SelectSeq(providers, LAMBDA e : e.name # name)
            /\ UNCHANGED <<xresult, defaultProvider>>

\* Mutant of ExecCall: the catch forgets to record the failure.
ExecCallSilent(name, ok, continueAt) ==
    /\ UNCHANGED <<regvars, xerrors>>
    /\ xcalls' = Append(xcalls, [provider |-> name, ok |-> ok])
    /\ IF ok
       THEN xpc' = "returned" /\ xresult' = name
       ELSE xpc' = continueAt /\ UNCHANGED xresult

\* One awaited call of operation(provider): it returns, or it throws and the
\* catch records {provider, error}.  The operation is the caller's: either
\* outcome is possible at every call.
ExecCall(name, ok, continueAt) ==
    /\ UNCHANGED regvars
    /\ xcalls' = Append(xcalls, [provider |-> name, ok |-> ok])
    /\ IF ok
       THEN /\ xpc' = "returned"
            /\ xresult' = name
            /\ UNCHANGED xerrors
       ELSE /\ xpc' = continueAt
            /\ xerrors' = Append(xerrors, [provider |-> name, error |-> ErrOperation])
            /\ UNCHANGED xresult

\* Whether operation(provider) may return.  A caller of the registry's API passes
\* any operation; the enhance command passes provider.enhance(input, mode,
\* options), which ends in provider.complete.
OperationOutcomes(caller, p, b) ==
    IF caller = "api" THEN BOOLEAN ELSE {o.ok : o \in CompleteOutcomes(p, b)}

\* "Try preferred provider first": getProvider may throw inside the try.
ExecPreferred ==
    /\ UNCHANGED pvars
    /\ xpc = "preferred"
    /\ IF GetProvider(providers, defaultProvider, xpref).raised
       THEN /\ xerrors' = Append(xerrors, [provider |-> xpref, error |-> ErrNotFound])
            /\ xpc' = "others"
            /\ UNCHANGED <<regvars, xcalls, xresult>>
       ELSE \E ok \in OperationOutcomes(xcaller, MapGet(providers, xpref), backend) :
                ExecCall(xpref, ok, "others")
    /\ last' = Step("executeWithFallback")
    /\ UNCHANGED <<backend, xpref, xidx, xpre, xcaller, hvars, cvars, evars>>

\* "Try other providers": one iteration of the loop over this.providers.
ExecOthers ==
    /\ UNCHANGED pvars
    /\ xpc = "others"
    /\ xidx <= Len(providers)
    /\ xidx' = xidx + 1
    /\ IF SkipInLoop(providers[xidx].name, xpref)
       THEN UNCHANGED <<regvars, xpc, xcalls, xerrors, xresult>>
       ELSE \E ok \in OperationOutcomes(xcaller, providers[xidx], backend) :
                ExecCall(providers[xidx].name, ok, "others")
    /\ last' = Step("executeWithFallback")
    /\ UNCHANGED <<backend, xpref, xpre, xcaller, hvars, cvars, evars>>

\* "All providers failed": the loop is over, the aggregate error is thrown.
ExecAllFailed ==
    /\ UNCHANGED pvars
    /\ xpc = "others"
    /\ xidx > Len(providers)
    /\ xpc' = "raised"
    /\ last' = Step("executeWithFallback")
    /\ UNCHANGED <<regvars, backend, xpref, xidx, xerrors, xcalls, xresult, xpre,
                   xcaller, hvars, cvars, evars>>

(***************************************************************************)
(* checkHealth()                                                           *)
(***************************************************************************)
\* The body of the try: initialize, then listModels.
Probe(p, b) == IF Initialize(p, b).ok THEN ListModels(p, b) ELSE Initialize(p, b)

\* Mutant of HealthEntry: the catch writes the try's entry.
HealthEntryAlwaysHealthy(p, outcome, def) ==
    [name |-> p.name, status |-> "healthy", error |-> Null, default |-> (p.name = def)]

\* health[name] = ...: the try's entry, or the catch's.
HealthEntry(p, outcome, def) ==
    IF outcome.ok
    THEN [name |-> p.name, status |-> "healthy", error |-> Null,
          default |-> (p.name = def)]
    ELSE [name |-> p.name, status |-> "unhealthy", error |-> outcome.error,
          default |-> (p.name = def)]

HealthStart(caller) ==
    /\ hpc' = "loop" /\ hidx' = 1 /\ health' = <<>> /\ hprobes' = <<>>
    /\ hcaller' = caller

checkHealth ==
    /\ UNCHANGED pvars
    /\ NoTask
    /\ HealthStart("api")
    /\ last' = Step("checkHealth")
    /\ ResetCompare /\ ResetEnhance
    /\ UNCHANGED <<regvars, backend, xvars>>

\* One iteration of the loop over this.providers.
HealthProbe ==
    /\ UNCHANGED pvars
    /\ hpc = "loop"
    /\ hidx <= Len(providers)
    /\ LET p == providers[hidx]
           o == Probe(p, backend)
       IN /\ health' = MapSet(health, HealthEntry(p, o, defaultProvider))
          /\ hprobes' = Append(hprobes,
                               [name |-> p.name, threw |-> ~o.ok, error |-> o.error,
                                initialized |-> Initialize(p, backend).ok,
                                reachable |-> (backend[p.class] = "up")])
    /\ hidx' = hidx + 1
    /\ last' = Step("checkHealth")
    /\ UNCHANGED <<regvars, backend, hpc, hcaller, xvars, cvars, evars>>

\* "return health".
HealthReturn ==
    /\ UNCHANGED pvars
    /\ hpc = "loop"
    /\ hidx > Len(providers)
    /\ hpc' = "done"
    /\ last' = Step("checkHealth")
    /\ UNCHANGED <<regvars, backend, hidx, health, hprobes, hcaller, xvars, cvars, evars>>

(***************************************************************************)
(* compareProviders(prompt, options)                                       *)
(***************************************************************************)
\* results[name] = ...: the try's entry, or the catch's.
CompareEntry(p, outcome) ==
    IF outcome.ok
    THEN [name |-> p.name, success |-> TRUE, error |-> Null]
    ELSE [name |-> p.name, success |-> FALSE, error |-> outcome.error]

compareProviders ==
    /\ UNCHANGED pvars
    /\ NoTask
    /\ cpc' = "loop" /\ cidx' = 1 /\ results' = <<>> /\ ccalls' = <<>>
    /\ last' = Step("compareProviders")
    /\ ResetExec /\ ResetHealth /\ ResetEnhance
    /\ UNCHANGED <<regvars, backend>>

CompareCall ==
    /\ UNCHANGED pvars
    /\ cpc = "loop"
    /\ cidx <= Len(providers)
    /\ \E o \in CompleteOutcomes(providers[cidx], backend) :
          /\ results' = MapSet(results, CompareEntry(providers[cidx], o))
          /\ ccalls' = Append(ccalls, [name |-> providers[cidx].name,
                                       threw |-> ~o.ok, error |-> o.error])
    /\ cidx' = cidx + 1
    /\ last' = Step("compareProviders")
    /\ UNCHANGED <<regvars, backend, cpc, xvars, hvars, evars>>

CompareReturn ==
    /\ UNCHANGED pvars
    /\ cpc = "loop"
    /\ cidx > Len(providers)
    /\ cpc' = "done"
    /\ last' = Step("compareProviders")
    /\ UNCHANGED <<regvars, backend, cidx, results, ccalls, xvars, hvars, evars>>

(***************************************************************************)
(* The enhance command (cli.js): input check, AI path, fallbacks           *)
(***************************************************************************)
\* Modes handed to --mode: the old default, and a name no template has.
Modes == {"balanced", "nosuchmode"}

\* "else if (mode === 'balanced') mode = 'standard'".
EffectiveMode(mode) == IF mode = "balanced" THEN "standard" ELSE mode

\* The keys getAllTemplates() is known to hold from template-utils.js itself.
TemplateModes == {"standard", "adaptive", "smart-code", "deep-analysis",
                  "creative-boost", "research"}

\* getTemplate(mode): templates[mode] || templates['standard'] || ...
GetTemplate(mode) == IF mode \in TemplateModes THEN mode ELSE "standard"

\* enhanceWithTemplate(input, mode): the text of the template chosen.
EnhanceWithTemplate(mode) == [kind |-> "template", by |-> GetTemplate(mode)]

\* "provider.streamCompletion": only OllamaProvider defines it.
HasStreamCompletion(p) == p.class = OllamaProvider

\* Mutant of CatchTarget: every failure of the AI path goes to the handler's
\* outer catch, which prints the error and exits with status 1.
CatchTargetExit(optProvider) == "exit"

\* The catch of the AI path: executeWithFallback when no --provider was given,
\* the static template otherwise.
CatchTarget(optProvider) == IF optProvider = Null THEN "fallback" ELSE "template"

\* The command starts: "No prompt provided" exits with status 1; --no-ai goes to
\* the template; otherwise the AI path begins.
enhance(emptyPrompt, opts) ==
    /\ UNCHANGED pvars
    /\ NoTask
    /\ IF emptyPrompt
       THEN /\ epc' = "exit"
            /\ eopts' = NoOptions
            /\ eoutcome' = [kind |-> "error_exit", by |-> "No prompt provided"]
       ELSE IF ~opts.useAI
       THEN /\ epc' = "done"
            /\ eopts' = opts
            /\ eoutcome' = EnhanceWithTemplate(EffectiveMode(opts.mode))
       ELSE /\ epc' = "select"
            /\ eopts' = opts
            /\ eoutcome' = NoOutcome
    /\ eprovider' = NoProvider /\ ecalled' = Null /\ eerror' = Null
    /\ last' = Step("enhance")
    /\ ResetExec /\ ResetHealth /\ ResetCompare
    /\ UNCHANGED <<regvars, backend>>

\* "if (options.provider) provider = registry.getProvider(options.provider)
\*  else health = await registry.checkHealth()".
EnhanceSelect ==
    /\ UNCHANGED pvars
    /\ epc = "select"
    /\ IF eopts.provider # Null
       THEN /\ LET g == GetProvider(providers, defaultProvider, eopts.provider)
               IN IF g.raised
                  THEN epc' = "catch" /\ eerror' = ErrNotFound /\ UNCHANGED eprovider
                  ELSE epc' = "call" /\ eprovider' = g.value /\ UNCHANGED eerror
            /\ UNCHANGED hvars
       ELSE /\ HealthStart("enhance")
            /\ epc' = "health"
            /\ UNCHANGED <<eprovider, eerror>>
    /\ last' = Step("enhance")
    /\ UNCHANGED <<regvars, backend, xvars, cvars, eopts, ecalled, eoutcome>>

\* The names Object.entries(health) yields with status 'healthy', in order.
HealthyNames(h) == SelectSeq(h, LAMBDA e : e.status = "healthy")

\* The provider chosen from the health report: the default if it is healthy,
\* else the first healthy one, else none ("No healthy providers available").
ChooseHealthy(h, def) ==
    IF Has(h, def) /\ h[IndexOf(h, def)].status = "healthy" THEN Null
    ELSE IF HealthyNames(h) # <<>> THEN HealthyNames(h)[1].name
    ELSE ErrNoHealthy

\* checkHealth has returned: pick the provider.
EnhanceChoose ==
    /\ UNCHANGED pvars
    /\ epc = "health"
    /\ hpc = "done"
    /\ LET c == ChooseHealthy(health, defaultProvider)
           g == GetProvider(providers, defaultProvider, c)
       IN IF c = ErrNoHealthy
          THEN epc' = "catch" /\ eerror' = ErrNoHealthy /\ UNCHANGED eprovider
          ELSE IF g.raised
          THEN epc' = "catch" /\ eerror' = ErrNotFound /\ UNCHANGED eprovider
          ELSE epc' = "call" /\ eprovider' = g.value /\ UNCHANGED eerror
    /\ last' = Step("enhance")
    /\ UNCHANGED <<regvars, backend, xvars, hvars, cvars, eopts, ecalled, eoutcome>>

\* "if (options.stream && provider.streamCompletion) { ...; return }", else
\* "enhanced = await provider.enhance(input, mode, options)"; either may throw.
EnhanceCall ==
    /\ UNCHANGED pvars
    /\ epc = "call"
    /\ ecalled' = eprovider.name
    /\ \E o \in CompleteOutcomes(eprovider, backend) :
          IF o.ok
          THEN /\ epc' = "done"
               /\ eoutcome' = [kind |-> IF eopts.stream /\ HasStreamCompletion(eprovider)
                                        THEN "streamed" ELSE "provider",
                               by |-> eprovider.name]
               /\ UNCHANGED eerror
          ELSE /\ epc' = "catch"
               /\ eerror' = o.error
               /\ UNCHANGED eoutcome
    /\ last' = Step("enhance")
    /\ UNCHANGED <<regvars, backend, xvars, hvars, cvars, eopts, eprovider>>

\* "catch (error) { spinner.fail(...); if (!options.provider) ... else ... }".
EnhanceCatch ==
    /\ UNCHANGED pvars
    /\ epc = "catch"
    /\ LET t == CatchTarget(eopts.provider)
       IN IF t = "fallback"
          THEN /\ ExecStart(Null, "enhance")
               /\ epc' = "fallback"
               /\ UNCHANGED eoutcome
          ELSE IF t = "template"
          THEN /\ epc' = "done"
               /\ eoutcome' = EnhanceWithTemplate(EffectiveMode(eopts.mode))
               /\ UNCHANGED xvars
          ELSE /\ epc' = "exit"
               /\ eoutcome' = [kind |-> "error_exit", by |-> eerror]
               /\ UNCHANGED xvars
    /\ last' = Step("enhance")
    /\ UNCHANGED <<regvars, backend, hvars, cvars, eopts, eprovider, ecalled, eerror>>

\* executeWithFallback has returned or thrown: its result, or the template.
EnhanceFallbackEnd ==
    /\ UNCHANGED pvars
    /\ epc = "fallback"
    /\ xpc \in {"returned", "raised"}
    /\ epc' = "done"
    /\ eoutcome' = IF xpc = "returned" THEN [kind |-> "provider", by |-> xresult]
                   ELSE EnhanceWithTemplate(EffectiveMode(eopts.mode))
    /\ last' = Step("enhance")
    /\ UNCHANGED <<regvars, backend, xvars, hvars, cvars, eopts, eprovider, ecalled,
                   eerror>>

(***************************************************************************)
(* Providers: usage bookkeeping and complete()                             *)
(***************************************************************************)
\* Time is counted in half hours: checkRateLimits' 3600000 ms are 2.
Hour == 2
\* The clock stops at MaxTime.
MaxTime == 3
\* rateLimits.requestsPerHour (1000, and 10000 for OllamaProvider), scaled down.
HourlyBudget == 2
\* LRUCache's max (1000), scaled down.
CacheMax == 2

\* The slots in which complete() calls run; calls of different slots interleave
\* at their awaits.
Slots == {"s1"}

\* Prompts, as their first 100 characters and the rest.
Prompts == {[head |-> "h1", tail |-> "x"], [head |-> "h1", tail |-> "y"],
            [head |-> "h2", tail |-> "x"]}

\* OllamaProvider: this.defaultModel and another model name.
DefaultModel == "llama3.2:1b"
OllamaModels == {DefaultModel, "codellama"}

\* HuggingFaceProvider: this.models, tier -> id.
HFTiers == {"fast", "balanced", "deep"}
HFModelId(tier) ==
    CASE tier = "fast" -> "google/flan-t5-xl"
      [] tier = "balanced" -> "mistralai/Mixtral-8x7B-Instruct-v0.1"
      [] tier = "deep" -> "meta-llama/Llama-2-70b-chat-hf"
\* options.modelTier as given: absent, a tier, or no tier's name.
TierOptions == {Null, "fast", "bogus"}

\* Texts a backend generates; the hosted API may answer with no generated_text,
\* which complete turns into the empty string.
Texts == {"", "text"}

ErrRateLimit == "Rate limit exceeded"
ErrModelNotFound == "Model not found. Use --pull to download it."
ErrListModels == "Failed to list models"
ErrPull == "Failed to pull model"
ErrOllamaComplete == "Ollama completion failed"
ErrTier == "Unknown model tier"
ErrHFApi == "HuggingFace API error"

NoKey == [prompt |-> Null, model |-> Null]
\* No network failure met.
NoFailure == [code |-> Null, status |-> Null, body |-> Null]
IdleCall ==
    [pc |-> "idle", class |-> Null, prompt |-> [head |-> Null, tail |-> Null],
     model |-> Null, autoPull |-> TRUE, noCache |-> FALSE, key |-> NoKey,
     stored |-> Null, sent |-> <<>>, exhausted |-> FALSE, error |-> Null,
     result |-> Null, mode |-> Null, cause |-> NoFailure, silent |-> FALSE, retries |-> 0, logged |-> <<>>,
     waits |-> <<>>, answered |-> 0]

\* Mutant of CheckRateLimits: the counters are reset but never compared.
CheckRateLimitsNoLimit(u, t) ==
    [usage |-> IF t - u.lastReset > Hour
               THEN [requests |-> 0, tokens |-> 0, lastReset |-> t] ELSE u,
     throws |-> FALSE]

\* BaseProvider.checkRateLimits(): the usage after the hourly reset, and whether
\* it throws 'Rate limit exceeded'.
CheckRateLimits(u, t) ==
    LET u1 == IF t - u.lastReset > Hour
              THEN [requests |-> 0, tokens |-> 0, lastReset |-> t] ELSE u
    IN [usage |-> u1, throws |-> u1.requests >= HourlyBudget]

\* BaseProvider.estimateTokens(text): Math.ceil(text.length / 4), for the short
\* texts of the model (at most 4 characters, the empty text none).
EstimateTokens(text) == IF text = "" THEN 0 ELSE 1

\* BaseProvider.trackUsage(tokens).
TrackUsage(u, tokens) == [u EXCEPT !.requests = @ + 1, !.tokens = @ + tokens]

\* The hourly budget is used up in the window that holds t.
BudgetExhausted(u, t) == u.requests >= HourlyBudget /\ t - u.lastReset <= Hour

\* Counters are kept finite: no call starts on a provider far beyond its budget.
WithinModel(u) == u.requests <= HourlyBudget /\ u.tokens <= 2 * HourlyBudget + 2

Failed(c, msg) == [c EXCEPT !.pc = "failed", !.error = msg]
Returned(c, text) == [c EXCEPT !.pc = "returned", !.result = text]
Send(c, pc, endpoint) == [c EXCEPT !.pc = pc, !.sent = Append(@, endpoint)]

\* OllamaProvider.complete(prompt, options), up to its first await: the model
\* is options.model || this.defaultModel, then checkRateLimits(), then the
\* request of listModels().
OllamaComplete(s, prompt, model, autoPull) ==
    /\ calls[s].pc = "idle"
    /\ WithinModel(usage[OllamaProvider])
    /\ LET r == CheckRateLimits(usage[OllamaProvider], now)
           c == [IdleCall EXCEPT !.class = OllamaProvider, !.prompt = prompt,
                                 !.model = IF model # Null THEN model ELSE DefaultModel,
                                 !.autoPull = autoPull,
                                 !.exhausted = BudgetExhausted(usage[OllamaProvider], now)]
       IN /\ usage' = [usage EXCEPT ![OllamaProvider] = r.usage]
          /\ calls' = [calls EXCEPT ![s] = IF r.throws THEN Failed(c, ErrRateLimit)
                                           ELSE Send(c, "listing", "GET /api/tags")]
    /\ UNCHANGED <<rvars, now, installed, availableModels, kvars>>

\* listModels() answered: the model is there, or is pulled, or the call fails.
OllamaListed(s) ==
    /\ calls[s].pc = "listing"
    /\ ~calls[s].silent
    /\ \E ok \in BOOLEAN :
          calls' = [calls EXCEPT ![s] =
              IF ~ok THEN Failed(@, ErrListModels)
              ELSE IF @.model \in installed THEN Send(@, "generating", "POST /api/generate")
              ELSE IF @.autoPull THEN Send(@, "pulling", "POST /api/pull")
              ELSE Failed(@, ErrModelNotFound)]
    /\ UNCHANGED <<rvars, now, usage, installed, availableModels, kvars>>

\* How a pull can end: the daemon downloaded the model; the request failed or
\* was answered with an error status; or the answer was 200 and its stream of
\* progress lines ended without the model having been downloaded (an error
\* line, a stream cut short).
PullEndings == {"downloaded", "refused", "ended"}

\* pullModel(modelName) as complete sees it: it throws only if fetch throws or
\* response.ok is false; the lines of the stream are printed, never inspected.
PullModelReturns(ending) == ending # "refused"

\* pullModel() ended.
OllamaPulled(s) ==
    /\ calls[s].pc = "pulling"
    /\ ~calls[s].silent
    /\ \E ending \in PullEndings :
          /\ installed' = IF ending = "downloaded" THEN installed \cup {calls[s].model}
                          ELSE installed
          /\ calls' = [calls EXCEPT ![s] =
                          IF PullModelReturns(ending)
                          THEN Send(@, "generating", "POST /api/generate")
                          ELSE Failed(@, ErrPull)]
    /\ UNCHANGED <<rvars, now, usage, availableModels, kvars>>

\* /api/generate answered: trackUsage and return, or the catch's error.
OllamaGenerated(s) ==
    /\ calls[s].pc = "generating"
    /\ ~calls[s].silent
    /\ \/ /\ calls' = [calls EXCEPT ![s] = Failed(@, ErrOllamaComplete)]
          /\ UNCHANGED usage
       \/ \E text \in Texts \ {""} :
             /\ usage' = [usage EXCEPT ![OllamaProvider] =
                              TrackUsage(@, EstimateTokens(calls[s].prompt.head)
                                            + EstimateTokens(text))]
             /\ calls' = [calls EXCEPT ![s] = Returned(@, text)]
    /\ UNCHANGED <<rvars, now, installed, availableModels, kvars>>

\* OllamaProvider.initialize(), up to its await: GET /api/version, with a
\* timer of 15 seconds that aborts it.
ErrOllamaTimeout == "Ollama connection timeout - server may be starting up"
ErrOllamaConnect == "Failed to connect to Ollama"
Connected == "connected"
OllamaInitialize(s) ==
    /\ calls[s].pc = "idle"
    /\ calls' = [calls EXCEPT ![s] = Send([IdleCall EXCEPT !.class = OllamaProvider],
                                          "pinging", "GET /api/version")]
    /\ UNCHANGED <<rvars, now, usage, installed, availableModels, kvars>>

\* /api/version answered, or the request failed: initialize returns true or
\* throws.
OllamaPinged(s) ==
    /\ calls[s].pc = "pinging"
    /\ ~calls[s].silent
    /\ \E outcome \in {Connected, ErrOllamaDown, ErrOllamaConnect} :
          calls' = [calls EXCEPT ![s] = IF outcome = Connected THEN Returned(@, Connected)
                                           ELSE Failed(@, outcome)]
    /\ UNCHANGED <<rvars, now, usage, installed, availableModels, kvars>>

\* The requests that are sent with an AbortController and a timer:
\* initialize's and listModels'.  pullModel's, complete's (this.timeout is
\* never read) and those of the hosted classes are sent without.
HasAbortTimer(pc) == pc \in {"pinging", "listing"}
Waiting(pc) == pc \in {"pinging", "listing", "pulling", "generating", "fetching"}

\* The backend will never answer the request in flight.
BackendSilent(s) ==
    /\ Waiting(calls[s].pc)
    /\ ~calls[s].silent
    /\ calls' = [calls EXCEPT ![s].silent = TRUE]
    /\ UNCHANGED <<rvars, now, usage, installed, availableModels, kvars>>

\* The timer fires on a request that got no answer: controller.abort(), fetch
\* rejects with an AbortError, and the catch of the operation throws.
AbortTimerFires(s) ==
    /\ HasAbortTimer(calls[s].pc)
    /\ calls[s].silent
    /\ calls' = [calls EXCEPT ![s] = IF @.pc = "pinging" THEN Failed(@, ErrOllamaTimeout)
                                     ELSE Failed(@, ErrListModels)]
    /\ UNCHANGED <<rvars, now, usage, installed, availableModels, kvars>>

\* The time to live of a cached response, 24 hours.
\* The models `ollama pull` and `ollama rm` install and remove on the machine.
Library == {DefaultModel, "codellama", "phi3"}

\* A model name or a preference cut where one preference ends inside another
\* name ('llama3' begins 'llama3.2', which begins 'llama3.2:1b').
Tokens(name) ==
    CASE name = "llama3.2:1b" -> <<"llama3", ".2", ":1b">>
      [] name = "llama3.2:3b" -> <<"llama3", ".2", ":3b">>
      [] name = "llama3.2" -> <<"llama3", ".2">>
      [] name = "llama3:8b" -> <<"llama3", ":8b">>
      [] name = "llama2:13b" -> <<"llama2", ":13b">>
      [] name = "llama2:7b" -> <<"llama2", ":7b">>
      [] OTHER -> <<name>>
\* name.startsWith(pref)
StartsWith(name, pref) ==
    /\ Len(Tokens(pref)) <= Len(Tokens(name))
    /\ \A i \in 1..Len(Tokens(pref)) : Tokens(name)[i] = Tokens(pref)[i]

\* The preferences object of getBestModelForMode.
PreferenceModes == {"coding", "ultrathink", "creative", "analysis", "balanced"}
Preferences(mode) ==
    CASE mode = "coding" -> <<"codellama", "deepseek-coder", "codegemma", "starcoder",
                              "llama3.2", "llama3", "llama2", "mistral">>
      [] mode = "ultrathink" -> <<"llama3.2:3b", "llama3:8b", "llama2:13b", "llama2:7b",
                                  "mistral", "neural-chat">>
      [] mode = "creative" -> <<"neural-chat", "llama3.2", "llama3", "mistral", "llama2">>
      [] mode = "analysis" -> <<"mistral", "llama3.2", "llama3", "llama2", "mixtral">>
      [] mode = "balanced" -> <<"llama3.2", "llama3", "llama2", "mistral", "neural-chat">>
\* Names every object literal inherits from Object.prototype: preferences[mode]
\* is then a function (or the prototype), truthy and not iterable.
InheritedKeys == {"constructor", "toString", "valueOf", "hasOwnProperty", "__proto__"}
NotIterable == <<"not iterable">>
\* preferences[mode] || preferences.balanced
ModePrefs(mode) ==
    IF mode \in PreferenceModes THEN Preferences(mode)
    ELSE IF mode \in InheritedKeys THEN NotIterable
    ELSE Preferences("balanced")

\* modelNames.find(name => name.startsWith(pref)): the first such name, or
\* undefined.
RECURSIVE FindStartingWith(_, _)
FindStartingWith(modelNames, pref) ==
    IF modelNames = <<>> THEN Null
    ELSE IF StartsWith(Head(modelNames), pref) THEN Head(modelNames)
    ELSE FindStartingWith(Tail(modelNames), pref)
\* The loop over modePrefs, then modelNames[0].
RECURSIVE FirstPreferred(_, _)
FirstPreferred(modePrefs, modelNames) ==
    IF modePrefs = <<>> THEN modelNames[1]
    ELSE IF FindStartingWith(modelNames, Head(modePrefs)) # Null
         THEN FindStartingWith(modelNames, Head(modePrefs))
    ELSE FirstPreferred(Tail(modePrefs), modelNames)
\* The body of the try block once availableModels is there; the loop over a
\* value that is not iterable throws, and the catch returns the default.
SelectModel(mode, modelNames) ==
    IF modelNames = <<>> THEN DefaultModel
    ELSE IF ModePrefs(mode) = NotIterable THEN DefaultModel
    ELSE FirstPreferred(ModePrefs(mode), modelNames)

\* availableModels: null until the first listing is stored.
NotListed == [set |-> FALSE, names |-> <<>>]
Listed(models) == models.set

\* GET /api/tags answers with the installed models in some order.
Listings(models) ==
    {l \in [1..Cardinality(models) -> models] : \A m \in models : \E i \in DOMAIN l : l[i] = m}

\* getBestModelForMode(mode): with availableModels set it selects from that
\* list, otherwise it first lists the models.
OllamaGetBestModelForMode(s, mode) ==
    /\ calls[s].pc = "idle"
    /\ LET c == [IdleCall EXCEPT !.class = OllamaProvider, !.mode = mode]
       IN calls' = [calls EXCEPT ![s] =
              IF Listed(availableModels) THEN Returned(c, SelectModel(mode, availableModels.names))
              ELSE Send(c, "detecting", "GET /api/tags")]
    /\ UNCHANGED <<rvars, now, usage, installed, availableModels, kvars>>

\* listModels() answers or throws.
OllamaDetected(s) ==
    /\ calls[s].pc = "detecting"
    /\ ~calls[s].silent
    /\ \/ /\ calls' = [calls EXCEPT ![s] = [Returned(@, DefaultModel)
                                               EXCEPT !.error = ErrListModels]]
          /\ UNCHANGED availableModels
       \/ \E l \in Listings(installed) :
             /\ availableModels' = [set |-> TRUE, names |-> l]
             /\ calls' = [calls EXCEPT ![s] = Returned(@, SelectModel(@.mode, l))]
    /\ UNCHANGED <<rvars, now, usage, installed, kvars>>

\* `ollama pull` and `ollama rm` run beside the program.
OllamaInstalled(m) ==
    /\ m \notin installed
    /\ installed' = installed \cup {m}
    /\ UNCHANGED <<rvars, now, usage, availableModels, kvars, calls>>
OllamaRemoved(m) ==
    /\ m \in installed
    /\ installed' = installed \ {m}
    /\ UNCHANGED <<rvars, now, usage, availableModels, kvars, calls>>

TTL == 48
\* No complete() or savePersistentCache() starts while MaxPending reads and
\* writes of the file are in flight.
MaxPending == 1

\* An entry of this.cache: the key, the value, the time its time to live
\* started, and the time the response was first stored (kept across the
\* file, to follow a response through persist and load).
CacheEntry(k, v, t, o) == [key |-> k, value |-> v, start |-> t, origin |-> o]
NoEntry == [key |-> NoKey, value |-> Null]

\* LRUCache: an entry is stale once its time to live has run out.
Stale(e, t) == t - e.start > TTL
CacheHas(c, k) == \E i \in 1..Len(c) : c[i].key = k
CacheEntryOf(c, k) == c[CHOOSE i \in 1..Len(c) : c[i].key = k]
\* Mutant of CacheTouch: a get that leaves the order of the entries as it is
\* (a cache that drops the oldest insertion).
CacheTouchKeepsPlace(c, k, t) ==
    IF ~CacheHas(c, k) THEN c
    ELSE IF Stale(CacheEntryOf(c, k), t) THEN SelectSeq(c, LAMBDA e : e.key # k)
    ELSE c
\* LRUCache.get: the value; undefined (Null) when the key is absent or stale.
CacheGet(c, k, t) == IF CacheHas(c, k) /\ ~Stale(CacheEntryOf(c, k), t)
                     THEN CacheEntryOf(c, k).value ELSE Null
\* ... the entry read becomes the most recently used, a stale one is deleted.
CacheTouch(c, k, t) ==
    IF ~CacheHas(c, k) THEN c
    ELSE IF Stale(CacheEntryOf(c, k), t) THEN SelectSeq(c, LAMBDA e : e.key # k)
    ELSE SelectSeq(c, LAMBDA e : e.key # k) \o SelectSeq(c, LAMBDA e : e.key = k)
\* LRUCache.set: the entry becomes the most recently used and its time to
\* live starts; beyond max the least recently used entry is dropped.
CacheSet(c, k, v, t, o) ==
    LET c1 == Append(SelectSeq(c, LAMBDA e : e.key # k), CacheEntry(k, v, t, o))
    IN IF Len(c1) > CacheMax THEN Tail(c1) ELSE c1
\* The entry that set drops.
Evicted(c, k) ==
    IF ~CacheHas(c, k) /\ Len(c) >= CacheMax
    THEN [key |-> Head(c).key, value |-> Head(c).value] ELSE NoEntry
\* LRUCache.entries(): the entries that are not stale, most recently used first.
RECURSIVE Reverse(_)
Reverse(q) == IF q = <<>> THEN <<>> ELSE Append(Reverse(Tail(q)), Head(q))
CacheEntries(c, t) == Reverse(SelectSeq(c, LAMBDA e : ~Stale(e, t)))

\* getCacheKey(prompt, model, options): prompt.substring(0, 100) and the model
\* id (temperature and maxTokens are left at their defaults).
GetCacheKey(prompt, modelId) == [prompt |-> prompt.head, model |-> modelId]

\* JavaScript truthiness of a cached value: undefined and '' are falsy.
Truthy(v) == v # Null /\ v # ""

\* The cache file: missing, unparsable, or a JSON object key -> {value,
\* expires}, as its entries in insertion order.
Missing == [state |-> "missing", entries |-> <<>>]
Corrupt == [state |-> "corrupt", entries |-> <<>>]
DataFile(es) == [state |-> "data", entries |-> es]
\* File operations in flight; they end in any order.
ReadOp == [op |-> "readFile", data |-> <<>>]
UnlinkOp == [op |-> "unlink", data |-> <<>>]
WriteOp(es) == [op |-> "writeFile", data |-> es]
Busy == Cardinality(pending) >= MaxPending

\* savePersistentCache(), its synchronous part: every entry of
\* this.cache.entries() with expires = Date.now() + 24 hours.
CacheData(c, t) ==
    LET es == CacheEntries(c, t)
    IN [i \in 1..Len(es) |-> [key |-> es[i].key, value |-> es[i].value,
                              expires |-> t + TTL, origin |-> es[i].origin]]

\* loadPersistentCache(), after readFile: cache.set for every entry of the
\* file with entry.expires > now, in the file's order.
RECURSIVE LoadEntries(_, _, _)
LoadEntries(c, es, t) ==
    IF es = <<>> THEN c
    ELSE LoadEntries(IF Head(es).expires > t
                     THEN CacheSet(c, Head(es).key, Head(es).value, t, Head(es).origin)
                     ELSE c,
                     Tail(es), t)

\* Mutant of SaveEscapes: savePersistentCache without its try/catch and
\* complete without the .catch on it.
SaveEscapesUncaught(failed) == failed
\* Mutant of UnlinkRaises: clearCache without the try/catch around unlink.
UnlinkRaisesUncaught(failed) == failed

\* Whether an error of the file operation reaches anybody: loadPersistentCache
\* and savePersistentCache catch everything, their callers add .catch(() => {});
\* clearCache catches the error of unlink.
LoadEscapes(failed) == FALSE
SaveEscapes(failed) == FALSE
UnlinkRaises(failed) == FALSE

\* Recency as the cache's contract has it: a get of a live entry and a set
\* both make the key the most recently used.
Remove(q, x) == SelectSeq(q, LAMBDA e : e # x)
UsedByGet(u, k, live) ==
    IF \A i \in 1..Len(u) : u[i] # k THEN u
    ELSE IF live THEN Append(Remove(u, k), k) ELSE Remove(u, k)
UsedBySet(u, k) ==
    LET u1 == Append(Remove(u, k), k) IN IF Len(u1) > CacheMax THEN Tail(u1) ELSE u1
RECURSIVE UsedByLoad(_, _, _)
UsedByLoad(u, es, t) ==
    IF es = <<>> THEN u
    ELSE UsedByLoad(IF Head(es).expires > t THEN UsedBySet(u, Head(es).key) ELSE u,
                    Tail(es), t)

\* The (key, value) pairs of the file that have not expired at t.
UnexpiredPairs(f, t) ==
    {<<f.entries[i].key, f.entries[i].value>> :
        i \in {j \in 1..Len(f.entries) : f.entries[j].expires > t}}
NoTrip == [stage |-> "none", before |-> {}]
Loading == [stage |-> "loading", before |-> {}]

ErrUnlink == "unlink failed"
ClearedMessage == "Cache cleared successfully"

\* HuggingFaceProvider.complete(prompt, options), up to its await: the tier, the
\* cache lookup, then the request.  It does not call checkRateLimits().
HFComplete(s, prompt, tier, noCache) ==
    /\ calls[s].pc = "idle"
    /\ WithinModel(usage[HuggingFaceProvider])
    /\ ~Busy
    /\ LET t == IF tier # Null THEN tier ELSE "balanced"
           c == [IdleCall EXCEPT !.class = HuggingFaceProvider, !.prompt = prompt,
                                 !.model = t, !.noCache = noCache,
                                 !.exhausted = BudgetExhausted(usage[HuggingFaceProvider], now)]
       IN IF t \notin HFTiers
          THEN /\ calls' = [calls EXCEPT ![s] = Failed(c, ErrTier)]
               /\ UNCHANGED <<hfcache, cleared, uses>>
          ELSE LET k == GetCacheKey(prompt, HFModelId(t))
                   cached == CacheGet(hfcache, k, now)
                   c1 == [c EXCEPT !.key = k, !.stored = cached]
               IN /\ hfcache' = CacheTouch(hfcache, k, now)
                  /\ uses' = UsedByGet(uses, k, CacheHas(hfcache, k)
                                                 /\ ~Stale(CacheEntryOf(hfcache, k), now))
                  /\ cleared' = Null
                  /\ IF Truthy(cached) /\ ~noCache
                     THEN calls' = [calls EXCEPT ![s] = Returned(c1, cached)]
                     ELSE calls' = [calls EXCEPT ![s] = Send(c1, "fetching", "POST /models")]
    /\ trip' = NoTrip
    /\ UNCHANGED <<rvars, impl, now, usage, installed, availableModels, file, pending, evicted, unhandled>>

\* The inference API answered, with an error or with one of the texts of
\* answers: cache the text, start savePersistentCache,
\* trackUsage and return the text; or throw what the catch makes of the error.
HFResponded(s, answers) ==
    /\ calls[s].pc = "fetching"
    /\ calls[s].class = HuggingFaceProvider
    /\ ~calls[s].silent
    /\ \/ \E msg \in {ErrRateLimit, ErrHFApi} :
             /\ calls' = [calls EXCEPT ![s] = Failed(@, msg)]
             /\ UNCHANGED <<usage, hfcache, pending, evicted, uses>>
       \/ \E text \in answers :
             /\ hfcache' = CacheSet(hfcache, calls[s].key, text, now, now)
             /\ evicted' = Evicted(hfcache, calls[s].key)
             /\ uses' = UsedBySet(uses, calls[s].key)
             /\ pending' = pending \cup {WriteOp(CacheData(hfcache', now))}
             /\ usage' = [usage EXCEPT ![HuggingFaceProvider] =
                              TrackUsage(@, EstimateTokens(calls[s].prompt.head)
                                            + EstimateTokens(text))]
             /\ calls' = [calls EXCEPT ![s] = Returned(@, text)]
    /\ trip' = NoTrip
    /\ UNCHANGED <<rvars, impl, now, installed, availableModels, file, cleared, unhandled>>

\* The options object commander builds: --no-cache is the negation of the
\* option 'cache' (true unless the flag is given); no option is named noCache.
ParseCacheFlag(noCacheGiven) == [cache |-> ~noCacheGiven, noCache |-> Null]
\* "options.noCache" as complete reads it.
NoCacheOption(options) == Truthy(options.noCache)

\* getSystemPromptForMode(mode): prompts[mode] || prompts.balanced, each system
\* prompt named by its mode.
SystemPromptModes == {"balanced", "ultrathink", "coding", "analysis", "creative"}
GetSystemPromptForMode(mode) == IF mode \in SystemPromptModes THEN mode ELSE "balanced"

\* BaseProvider.enhance's fullPrompt, `${systemPrompt}\n\nUser prompt:
\* ${prompt}\n\nEnhanced prompt:`: its first 100 characters are the system
\* prompt and the beginning of the user's prompt (a head of Prompts), the rest
\* of the user's prompt comes after them.
FullPromptHead(systemPrompt, head) ==
    CASE systemPrompt = "balanced" /\ head = "h1" -> "balanced/h1"
      [] systemPrompt = "balanced" /\ head = "h2" -> "balanced/h2"
      [] systemPrompt = "coding" /\ head = "h1" -> "coding/h1"
      [] systemPrompt = "coding" /\ head = "h2" -> "coding/h2"
FullPrompt(prompt, mode) ==
    [head |-> FullPromptHead(GetSystemPromptForMode(mode), prompt.head),
     tail |-> prompt.tail]

\* The enhance command with the hosted provider: provider.enhance(input, mode,
\* options) is BaseProvider.enhance, which calls complete(fullPrompt, options).
CliEnhanceHF(s, prompt, mode, noCacheGiven) ==
    HFComplete(s, FullPrompt(prompt, mode), Null, NoCacheOption(ParseCacheFlag(noCacheGiven)))

\* The text the hosted model generates for a full prompt: another text for
\* another prompt.
GeneratedFor(fullPrompt) ==
    CASE fullPrompt.head = "coding/h1" /\ fullPrompt.tail = "x" -> "coding h1 x"
      [] fullPrompt.head = "coding/h1" /\ fullPrompt.tail = "y" -> "coding h1 y"
      [] fullPrompt.head = "coding/h2" /\ fullPrompt.tail = "x" -> "coding h2 x"
      [] fullPrompt.head = "balanced/h1" /\ fullPrompt.tail = "x" -> "balanced h1 x"
      [] fullPrompt.head = "balanced/h1" /\ fullPrompt.tail = "y" -> "balanced h1 y"
      [] fullPrompt.head = "balanced/h2" /\ fullPrompt.tail = "x" -> "balanced h2 x"
      [] OTHER -> "text"

\* What the network call of complete can meet: fetch rejects with a system
\* error code, or the backend answers with a status that is not ok and a body
\* (for the hosted API a JSON object whose error field may be missing).
TransportCodes == {"ECONNREFUSED", "ETIMEDOUT", "ECONNRESET"}
HttpStatuses == {"401", "404", "429", "500", "503"}
BodyRateLimit == "Rate limit reached. You reached free usage limit"
BodyLoading == "Model is currently loading"
Bodies == {Null, BodyRateLimit, BodyLoading}
NetworkFailures ==
    [code : TransportCodes, status : {Null}, body : {Null}]
        \cup [code : {Null}, status : HttpStatuses, body : Bodies]

\* The Error objects the try block throws. fetch's rejection carries the code
\* of the system error; `new Error(message)` has neither code nor status.
FetchError(code) == [code |-> code, status |-> Null, message |-> "request failed"]
ApiErrorMessage(status) ==
    CASE status = "401" -> "API error: 401"
      [] status = "404" -> "API error: 404"
      [] status = "429" -> "API error: 429"
      [] status = "500" -> "API error: 500"
      [] status = "503" -> "API error: 503"
HFNotOk(status, body) ==
    [code |-> Null, status |-> Null,
     message |-> IF Truthy(body) THEN body ELSE ApiErrorMessage(status)]
OllamaNotOk(status, body) ==
    [code |-> Null, status |-> Null, message |-> "Ollama API error"]
HFThrown(failure) ==
    IF failure.code # Null THEN FetchError(failure.code)
    ELSE HFNotOk(failure.status, failure.body)
OllamaThrown(failure) ==
    IF failure.code # Null THEN FetchError(failure.code)
    ELSE OllamaNotOk(failure.status, failure.body)

\* formatError(error): safeErrors[error.code] || safeErrors[error.status] ||
\* 'An error occurred'.
MsgRefused == "Connection refused. Is the service running?"
MsgTimedOut == "Request timed out. Please try again."
MsgRateLimit == "Rate limit exceeded. Please wait before retrying."
MsgAuth == "Authentication failed. Please check your API key."
MsgNotFound == "Model not found. Please check the model name."
MsgServer == "Server error. Please try again later."
MsgUnknown == "An error occurred"
SafeErrors(key) ==
    CASE key = "ECONNREFUSED" -> MsgRefused
      [] key = "ETIMEDOUT" -> MsgTimedOut
      [] key = "rate_limit" -> MsgRateLimit
      [] key = "401" -> MsgAuth
      [] key = "404" -> MsgNotFound
      [] key = "500" -> MsgServer
      [] OTHER -> Null
FormatError(error) ==
    IF Truthy(SafeErrors(error.code)) THEN SafeErrors(error.code)
    ELSE IF Truthy(SafeErrors(error.status)) THEN SafeErrors(error.status)
    ELSE MsgUnknown

\* error.message.includes('Rate limit')
MentionsRateLimit(message) == message = BodyRateLimit

\* The catch of HuggingFaceProvider.complete: what it throws is told by the
\* provider and the text after its prefix.
HFCatch(error) ==
    IF MentionsRateLimit(error.message) THEN [provider |-> HuggingFaceProvider, text |-> MsgRateLimit]
    ELSE [provider |-> HuggingFaceProvider, text |-> FormatError(error)]
\* The catch of OllamaProvider.complete.
OllamaCatch(error) == [provider |-> OllamaProvider, text |-> FormatError(error)]

\* The message of the Error a catch throws.
Surfaced(thrown) ==
    IF thrown.text = MsgRateLimit /\ thrown.provider = HuggingFaceProvider THEN MsgRateLimit
    ELSE IF thrown.provider = HuggingFaceProvider
    THEN CASE thrown.text = MsgRefused -> "HuggingFace API error: Connection refused. Is the service running?"
           [] thrown.text = MsgTimedOut -> "HuggingFace API error: Request timed out. Please try again."
           [] thrown.text = MsgAuth -> "HuggingFace API error: Authentication failed. Please check your API key."
           [] thrown.text = MsgNotFound -> "HuggingFace API error: Model not found. Please check the model name."
           [] thrown.text = MsgServer -> "HuggingFace API error: Server error. Please try again later."
           [] OTHER -> "HuggingFace API error: An error occurred"
    ELSE CASE thrown.text = MsgRefused -> "Ollama completion failed: Connection refused. Is the service running?"
           [] thrown.text = MsgTimedOut -> "Ollama completion failed: Request timed out. Please try again."
           [] thrown.text = MsgAuth -> "Ollama completion failed: Authentication failed. Please check your API key."
           [] thrown.text = MsgNotFound -> "Ollama completion failed: Model not found. Please check the model name."
           [] thrown.text = MsgServer -> "Ollama completion failed: Server error. Please try again later."
           [] OTHER -> "Ollama completion failed: An error occurred"

\* The request of HuggingFaceProvider.complete fails.
HFRejected(s, failure) ==
    /\ calls[s].pc = "fetching"
    /\ calls[s].class = HuggingFaceProvider
    /\ ~calls[s].silent
    /\ calls' = [calls EXCEPT ![s] = [Failed(@, Surfaced(HFCatch(HFThrown(failure))))
                                         EXCEPT !.cause = failure]]
    /\ trip' = NoTrip
    /\ UNCHANGED <<rvars, impl, now, installed, availableModels, file, cleared, unhandled,
                   usage, hfcache, pending, evicted, uses>>

\* The generate request of OllamaProvider.complete fails.
OllamaRejected(s, failure) ==
    /\ calls[s].pc = "generating"
    /\ ~calls[s].silent
    /\ calls' = [calls EXCEPT ![s] = [Failed(@, Surfaced(OllamaCatch(OllamaThrown(failure))))
                                         EXCEPT !.cause = failure]]
    /\ UNCHANGED <<rvars, now, installed, availableModels, kvars, usage>>

\* savePersistentCache() called on its own.
HFSavePersistentCache ==
    /\ \A s \in Slots : calls[s].pc = "idle"
    /\ ~Busy
    /\ pending' = pending \cup {WriteOp(CacheData(hfcache, now))}
    /\ cleared' = Null
    /\ trip' = IF trip.stage = "loaded" THEN [trip EXCEPT !.stage = "saving"] ELSE NoTrip
    /\ UNCHANGED <<rvars, impl, now, usage, installed, availableModels, hfcache, file, evicted, unhandled,
                   uses, calls>>

\* A writeFile of savePersistentCache ends: the file holds the data, or the
\* write failed and the catch logs a warning.
HFWritten ==
    \E w \in pending, failed \in BOOLEAN :
        /\ w.op = "writeFile"
        /\ pending' = pending \ {w}
        /\ file' = IF failed THEN file ELSE DataFile(w.data)
        /\ unhandled' = (unhandled \/ SaveEscapes(failed))
        /\ trip' = IF failed THEN NoTrip ELSE trip
        /\ UNCHANGED <<rvars, impl, now, usage, installed, availableModels, hfcache, cleared, evicted, uses,
                       calls>>

\* The readFile of loadPersistentCache ends: the unexpired entries of a
\* parsable file are set, in one go; anything else is caught.
HFLoaded ==
    \E failed \in BOOLEAN :
        /\ ReadOp \in pending
        /\ pending' = pending \ {ReadOp}
        /\ hfcache' = IF failed \/ file.state # "data" THEN hfcache
                      ELSE LoadEntries(hfcache, file.entries, now)
        /\ uses' = IF failed \/ file.state # "data" THEN uses
                   ELSE UsedByLoad(uses, file.entries, now)
        /\ unhandled' = (unhandled \/ LoadEscapes(failed \/ file.state # "data"))
        /\ trip' = IF trip.stage = "loading" /\ ~failed
                   THEN [stage |-> "loaded", before |-> UnexpiredPairs(file, now)]
                   ELSE NoTrip
        /\ UNCHANGED <<rvars, impl, now, usage, installed, availableModels, file, cleared, evicted, calls>>

\* HuggingFaceProvider.clearCache(), up to its await: the memory is emptied,
\* then the file is unlinked.
HFClearCache(s) ==
    /\ calls[s].pc = "idle"
    /\ hfcache' = <<>>
    /\ pending' = pending \cup {UnlinkOp}
    /\ cleared' = Null
    /\ evicted' = NoEntry
    /\ calls' = [calls EXCEPT ![s] = [IdleCall EXCEPT !.class = HuggingFaceProvider,
                                                      !.pc = "clearing"]]
    /\ uses' = <<>>
    /\ trip' = NoTrip
    /\ UNCHANGED <<rvars, impl, now, usage, installed, availableModels, file, unhandled>>

\* The unlink ends: the file is gone (or was not there), or the unlink failed;
\* clearCache returns its message either way.
HFUnlinked(s) ==
    /\ calls[s].pc = "clearing"
    /\ calls[s].class = HuggingFaceProvider
    /\ UnlinkOp \in pending
    /\ \E failed \in BOOLEAN :
          /\ file' = IF failed THEN file ELSE Missing
          /\ cleared' = IF failed THEN "kept" ELSE "unlinked"
          /\ calls' = [calls EXCEPT ![s] = IF UnlinkRaises(failed) THEN Failed(@, ErrUnlink)
                                           ELSE Returned(@, ClearedMessage)]
    /\ pending' = pending \ {UnlinkOp}
    /\ trip' = NoTrip
    /\ UNCHANGED <<rvars, impl, now, usage, installed, availableModels, hfcache, evicted, unhandled, uses>>

\* The process ends with nothing in flight and a new one constructs its
\* provider: fresh usage, an empty cache, loadPersistentCache() started.
HFRestart ==
    /\ \A s \in Slots : calls[s].pc = "idle"
    /\ pending = {}
    /\ hfcache' = <<>>
    /\ usage' = [usage EXCEPT ![HuggingFaceProvider] =
                     [requests |-> 0, tokens |-> 0, lastReset |-> now]]
    /\ pending' = {ReadOp}
    /\ cleared' = Null
    /\ evicted' = NoEntry
    /\ uses' = <<>>
    /\ trip' = Loading
    /\ UNCHANGED <<rvars, impl, now, installed, availableModels, file, unhandled, calls>>

(***************************************************************************)
(* AIEnhancer (lib/ai-enhancer.js): the earlier implementation of the      *)
(* hosted enhancement, with the same cache file and a cache that writes    *)
(* the entries it drops to the file.  callHFAPI (its request, its retries  *)
(* and its usage statistics) is seen through its outcome.                  *)
(***************************************************************************)
AIEnhancer == "AIEnhancer"

\* AIEnhancer's constructor throws on a missing token and on a token
\* without the 'hf_' prefix or shorter than 20 characters.
AIConstructorThrows(token) == token = Null \/ token = KeyMalformed

AIValidModes == {"balanced", "ultrathink", "coding", "analysis", "creative"}
ErrMode == "Invalid mode"
ErrAI == "AI Enhancement failed"
\* "let retries = 3".
MaxAttempts == 3
AIClearedMessage == "Cache cleared successfully (both memory and disk)"

\* The cache key `${mode}:${prompt.substring(0, 100)}:${options.model || 'default'}`;
\* options.model is never given here, the key's last part is always 'default'.
AICacheKey(prompt, mode) == [prompt |-> prompt.head, model |-> mode]

\* dispose(value, key): the cache calls it for every entry it drops (evicted
\* by a set, replaced by another value, deleted when found stale, cleared),
\* and it starts saveCacheEntry(key, value).
SaveEntryOp(e) ==
    [op |-> "saveCacheEntry",
     data |-> <<[key |-> e.key, value |-> e.value, expires |-> 0, origin |-> e.origin]>>]
PersistOp == [op |-> "savePersistentCache", data |-> <<>>]
CleanupOp == [op |-> "cleanupExpiredCache", data |-> <<>>]

\* The entries a get drops: the entry read, if it is stale.
DisposedByGet(c, k, t) ==
    IF CacheHas(c, k) /\ Stale(CacheEntryOf(c, k), t) THEN {CacheEntryOf(c, k)} ELSE {}
\* The entries a set drops: the one replaced by another value, or the least
\* recently used one of a full cache.
DisposedBySet(c, k, v) ==
    IF CacheHas(c, k)
    THEN (IF CacheEntryOf(c, k).value # v THEN {CacheEntryOf(c, k)} ELSE {})
    ELSE IF Len(c) >= CacheMax THEN {Head(c)} ELSE {}
\* The entries the sets of a load drop.
RECURSIVE DisposedByLoad(_, _, _)
DisposedByLoad(c, es, t) ==
    IF es = <<>> THEN {}
    ELSE IF Head(es).expires > t
         THEN DisposedBySet(c, Head(es).key, Head(es).value)
              \cup DisposedByLoad(CacheSet(c, Head(es).key, Head(es).value, t,
                                           Head(es).origin), Tail(es), t)
         ELSE DisposedByLoad(c, Tail(es), t)
DisposedByClear(c) == {c[i] : i \in 1..Len(c)}
SaveEntryOps(disposed) == {SaveEntryOp(e) : e \in disposed}

\* existingData[key] = {value, expires}: an existing key keeps its place in
\* the object, a new one comes last.
FilePut(es, e) ==
    IF \E i \in 1..Len(es) : es[i].key = e.key
    THEN [i \in 1..Len(es) |-> IF es[i].key = e.key THEN e ELSE es[i]]
    ELSE Append(es, e)
FileEntries(f) == IF f.state = "data" THEN f.entries ELSE <<>>

\* AIEnhancer.enhance(prompt, mode, options), up to its await: the checks of
\* its arguments, the cache lookup, then callHFAPI.
AIEnhance(s, prompt, mode, noCache) ==
    /\ calls[s].pc = "idle"
    /\ ~Busy
    /\ LET c == [IdleCall EXCEPT !.class = AIEnhancer, !.prompt = prompt, !.model = mode,
                                 !.noCache = noCache]
       IN IF mode \notin AIValidModes
          THEN /\ calls' = [calls EXCEPT ![s] = Failed(c, ErrMode)]
               /\ UNCHANGED <<hfcache, cleared, uses, pending>>
          ELSE LET k == AICacheKey(prompt, mode)
                   cached == CacheGet(hfcache, k, now)
                   c1 == [c EXCEPT !.key = k, !.stored = cached]
               IN /\ hfcache' = CacheTouch(hfcache, k, now)
                  /\ uses' = UsedByGet(uses, k, CacheHas(hfcache, k)
                                                 /\ ~Stale(CacheEntryOf(hfcache, k), now))
                  /\ pending' = pending \cup SaveEntryOps(DisposedByGet(hfcache, k, now))
                  /\ cleared' = Null
                  /\ IF Truthy(cached) /\ ~noCache
                     THEN calls' = [calls EXCEPT ![s] = Returned(c1, cached)]
                     ELSE calls' = [calls EXCEPT ![s] =
                              Send([c1 EXCEPT !.retries = MaxAttempts],
                                   "fetching", "POST /models")]
    /\ trip' = NoTrip
    /\ UNCHANGED <<rvars, now, usage, installed, availableModels, file, evicted, unhandled, impl>>

\* How one callHFAPI can throw: the status 429, whose message is 'Rate limit
\* reached. ...'; another status or a failed fetch; and, after a successful
\* answer, the unguarded `await this.saveUsage()`.
ErrAIRateLimit == "Rate limit reached. Please try again later or use template mode."
ErrAIRequest == "API request failed"
ErrSaveUsage == "writeFile of the usage statistics failed"
AIFailures == {ErrAIRateLimit, ErrAIRequest, ErrSaveUsage}

\* error.message.includes('Rate limit')
IncludesRateLimit(msg) == msg = ErrAIRateLimit

\* The catch of the retry loop, retries already decremented: throw, or wait.
RetryGivesUp(retries, msg) == retries = 0 \/ IncludesRateLimit(msg)
\* The wait before the next attempt, in seconds: (3 - retries) * 1000 ms.
BackoffWait(retries) == MaxAttempts - retries

\* One callHFAPI of the retry loop ended: with one of the errors of failures
\* (logged; the loop throws or waits), or with one of the texts of answers,
\* which is cached, persisted and returned.
AIResponded(s, answers, failures) ==
    /\ calls[s].pc = "fetching"
    /\ calls[s].class = AIEnhancer
    /\ ~calls[s].silent
    /\ \/ /\ \E msg \in failures :
                LET c == [calls[s] EXCEPT !.retries = @ - 1,
                                          !.logged = Append(@, msg),
                                          !.answered = IF msg = ErrSaveUsage /\ @ = 0
                                                       THEN Len(calls[s].sent) ELSE @]
                IN calls' = [calls EXCEPT ![s] =
                       IF RetryGivesUp(c.retries, msg) THEN Failed(c, ErrAI)
                       ELSE [c EXCEPT !.pc = "backoff",
                                      !.waits = Append(@, BackoffWait(c.retries))]]
          /\ UNCHANGED <<hfcache, pending, evicted, uses>>
       \/ \E text \in answers :
             /\ hfcache' = CacheSet(hfcache, calls[s].key, text, now, now)
             /\ evicted' = Evicted(hfcache, calls[s].key)
             /\ uses' = UsedBySet(uses, calls[s].key)
             /\ pending' = pending
                           \cup SaveEntryOps(DisposedBySet(hfcache, calls[s].key, text))
                           \cup {PersistOp}
             /\ calls' = [calls EXCEPT ![s] =
                             Returned([@ EXCEPT !.answered = IF @ = 0 THEN Len(calls[s].sent)
                                                             ELSE @], text)]
    /\ trip' = NoTrip
    /\ UNCHANGED <<rvars, now, usage, installed, availableModels, file, cleared, unhandled, impl>>

\* The wait of the retry loop is over: the next callHFAPI.
AIRetry(s) ==
    /\ calls[s].pc = "backoff"
    /\ calls' = [calls EXCEPT ![s] = Send(@, "fetching", "POST /models")]
    /\ UNCHANGED <<rvars, now, usage, installed, availableModels, kvars>>

\* savePersistentCache() called on its own (saveOnExit).
AISavePersistentCache ==
    /\ \A s \in Slots : calls[s].pc = "idle"
    /\ ~Busy
    /\ pending' = pending \cup {PersistOp}
    /\ cleared' = Null
    /\ trip' = IF trip.stage = "loaded" THEN [trip EXCEPT !.stage = "saving"] ELSE NoTrip
    /\ UNCHANGED <<rvars, now, usage, installed, availableModels, hfcache, file, evicted, unhandled,
                   uses, impl, calls>>

\* savePersistentCache() after ensureCacheDirectory(): the entries of the
\* cache as they are now, with expires = now + 24 hours, go to writeFile; a
\* failure is caught and logged.
AIPersistEnsured ==
    \E failed \in BOOLEAN :
        /\ PersistOp \in pending
        /\ pending' = (pending \ {PersistOp})
                      \cup (IF failed THEN {} ELSE {WriteOp(CacheData(hfcache, now))})
        /\ unhandled' = (unhandled \/ SaveEscapes(failed))
        /\ trip' = IF failed THEN NoTrip ELSE trip
        /\ UNCHANGED <<rvars, now, usage, installed, availableModels, hfcache, file, cleared, evicted,
                       uses, impl, calls>>

\* saveCacheEntry(key, value) after its readFile: the file's object (an empty
\* one if the file is missing or unparsable) with the entry put in goes to
\* writeFile; a failure is caught silently.
AIEntryRead ==
    \E o \in pending, failed \in BOOLEAN :
        /\ o.op = "saveCacheEntry"
        /\ pending' = (pending \ {o})
                      \cup (IF failed THEN {}
                            ELSE {WriteOp(FilePut(FileEntries(file),
                                                  [o.data[1] EXCEPT !.expires = now + TTL]))})
        /\ UNCHANGED <<rvars, now, usage, installed, availableModels, hfcache, file, cleared, evicted,
                       unhandled, uses, trip, impl, calls>>

\* The readFile of loadPersistentCache ends: the unexpired entries are set,
\* the entries these sets drop go to saveCacheEntry, and the constructor's
\* then() starts cleanupExpiredCache().
AILoaded ==
    \E failed \in BOOLEAN :
        /\ ReadOp \in pending
        /\ LET read == ~failed /\ file.state = "data"
           IN /\ hfcache' = IF read THEN LoadEntries(hfcache, file.entries, now) ELSE hfcache
              /\ uses' = IF read THEN UsedByLoad(uses, file.entries, now) ELSE uses
              /\ pending' = (pending \ {ReadOp}) \cup {CleanupOp}
                            \cup (IF read
                                  THEN SaveEntryOps(DisposedByLoad(hfcache, file.entries, now))
                                  ELSE {})
              /\ unhandled' = (unhandled \/ LoadEscapes(~read))
        /\ trip' = IF trip.stage = "loading" /\ ~failed
                   THEN [stage |-> "loaded", before |-> UnexpiredPairs(file, now)]
                   ELSE NoTrip
        /\ UNCHANGED <<rvars, now, usage, installed, availableModels, file, cleared, evicted, impl, calls>>

\* cleanupExpiredCache() after its readFile: if the file holds expired
\* entries, the others are written back; anything else is ignored.
AICleanupRead ==
    \E failed \in BOOLEAN :
        /\ CleanupOp \in pending
        /\ LET kept == SelectSeq(FileEntries(file), LAMBDA e : e.expires > now)
           IN pending' = (pending \ {CleanupOp})
                         \cup (IF ~failed /\ Len(kept) < Len(FileEntries(file))
                               THEN {WriteOp(kept)} ELSE {})
        /\ UNCHANGED <<rvars, now, usage, installed, availableModels, hfcache, file, cleared, evicted,
                       unhandled, uses, trip, impl, calls>>

\* AIEnhancer.clearCache(), up to its await: cache.clear() drops every entry
\* (each goes to saveCacheEntry), then the file is unlinked.
AIClearCache(s) ==
    /\ calls[s].pc = "idle"
    /\ ~Busy
    /\ hfcache' = <<>>
    /\ pending' = pending \cup SaveEntryOps(DisposedByClear(hfcache)) \cup {UnlinkOp}
    /\ cleared' = Null
    /\ evicted' = NoEntry
    /\ calls' = [calls EXCEPT ![s] = [IdleCall EXCEPT !.class = AIEnhancer,
                                                      !.pc = "clearing"]]
    /\ uses' = <<>>
    /\ trip' = NoTrip
    /\ UNCHANGED <<rvars, now, usage, installed, availableModels, file, unhandled, impl>>

\* The unlink of the cache file ends (that of the statistics file follows if
\* it did not fail); clearCache returns its message either way.
AIUnlinked(s) ==
    /\ calls[s].pc = "clearing"
    /\ calls[s].class = AIEnhancer
    /\ UnlinkOp \in pending
    /\ \E failed \in BOOLEAN :
          /\ file' = IF failed THEN file ELSE Missing
          /\ cleared' = IF failed THEN "kept" ELSE "unlinked"
          /\ calls' = [calls EXCEPT ![s] = IF UnlinkRaises(failed) THEN Failed(@, ErrUnlink)
                                           ELSE Returned(@, AIClearedMessage)]
    /\ pending' = pending \ {UnlinkOp}
    /\ trip' = NoTrip
    /\ UNCHANGED <<rvars, impl, now, usage, installed, availableModels, hfcache, evicted, unhandled, uses>>

\* The process ends with nothing in flight and a new one constructs its
\* AIEnhancer: an empty cache, loadPersistentCache() started.
AIRestart ==
    /\ \A s \in Slots : calls[s].pc = "idle"
    /\ pending = {}
    /\ ~AIConstructorThrows(KeyWellFormed)
    /\ hfcache' = <<>>
    /\ pending' = {ReadOp}
    /\ cleared' = Null
    /\ evicted' = NoEntry
    /\ uses' = <<>>
    /\ trip' = Loading
    /\ UNCHANGED <<rvars, now, usage, installed, availableModels, file, unhandled, impl, calls>>

\* The caller has the result: the slot is free again.
CallEnd(s) ==
    /\ calls[s].pc \in {"returned", "failed"}
    /\ calls' = [calls EXCEPT ![s] = IdleCall]
    /\ UNCHANGED <<rvars, now, usage, installed, availableModels, kvars>>

\* The clock of the cache's life: sixteen hours at a time, up to Horizon.
Stride == 32
Horizon == 64

\* Much time passes.
LongTick ==
    /\ now + Stride <= Horizon
    /\ now' = now + Stride
    /\ trip' = NoTrip
    /\ UNCHANGED <<rvars, impl, usage, installed, availableModels, hfcache, file, pending, cleared, evicted,
                   unhandled, uses, calls>>

\* Time passes.
Tick ==
    /\ now < MaxTime
    /\ now' = now + 1
    /\ UNCHANGED <<rvars, usage, installed, availableModels, kvars, calls>>

(***************************************************************************)
(* Environment                                                             *)
(***************************************************************************)
\* A backend (the local daemon, the hosted API) starts or stops answering,
\* at any moment of the process's life.
BackendChange(class) ==
    /\ UNCHANGED pvars
    /\ epc \notin {"done", "exit"}
    /\ backend' = [backend EXCEPT ![class] = IF @ = "up" THEN "down" ELSE "up"]
    /\ UNCHANGED <<regvars, last, xvars, hvars, cvars, evars>>

\* More than the time to live passes between two steps of the AIEnhancer.
LongerTick ==
    /\ now + 2 * Stride <= Horizon
    /\ now' = now + 2 * Stride
    /\ trip' = NoTrip
    /\ UNCHANGED <<rvars, usage, installed, availableModels, hfcache, file, pending, cleared, evicted,
                   unhandled, uses, impl, calls>>

InitOf(f, i, slots) ==
    /\ providers = <<>>
    /\ defaultProvider = Null
    /\ backend = [c \in Classes |-> "up"]
    /\ last = [op |-> "constructor", name |-> Null, raised |-> FALSE, threw |-> FALSE,
               value |-> NoProvider, available |-> <<>>,
               pre |-> EmptyRegistry]
    /\ xpc = "idle" /\ xpref = Null /\ xidx = 1 /\ xerrors = <<>>
    /\ xcalls = <<>> /\ xresult = Null /\ xcaller = "api"
    /\ xpre = EmptyRegistry
    /\ hpc = "idle" /\ hidx = 1 /\ health = <<>> /\ hprobes = <<>> /\ hcaller = "api"
    /\ cpc = "idle" /\ cidx = 1 /\ results = <<>> /\ ccalls = <<>>
    /\ epc = "idle" /\ eopts = NoOptions /\ eprovider = NoProvider
    /\ ecalled = Null /\ eerror = Null /\ eoutcome = NoOutcome
    /\ now = 0
    /\ usage = [c \in Classes |-> [requests |-> 0, tokens |-> 0, lastReset |-> 0]]
    /\ installed = {DefaultModel}
    /\ availableModels = NotListed
    /\ hfcache = <<>>
    /\ file = f
    /\ pending = {ReadOp}
    /\ cleared = Null
    /\ evicted = NoEntry
    /\ unhandled = FALSE
    /\ uses = <<>>
    /\ trip = Loading
    /\ impl = i
    /\ calls = [s \in slots |-> IdleCall]

InitWith(f, i) == InitOf(f, i, Slots)

\* The state after construction, no cache file on the disk.
Init == InitWith(Missing, HuggingFaceProvider)

Next ==
    \/ \E r \in Registrations : registerProvider(r.name, r.class, r.apiKey)
    \/ \E n \in Names : setDefaultProvider(n)
    \/ \E n \in Names \cup {Null} : getProvider(n)
    \/ \E o \in Names \cup {Null} : executeWithFallback(o)
    \/ ExecPreferred
    \/ ExecOthers
    \/ ExecAllFailed
    \/ checkHealth
    \/ HealthProbe
    \/ HealthReturn
    \/ compareProviders
    \/ CompareCall
    \/ CompareReturn
    \/ \E c \in Classes : BackendChange(c)

\* The registry's API, called in any order.
Spec == Init /\ [][Next]_vars

\* The command line tool: the registry is set up (initializeProviders, the
\* providers command's setDefaultProvider), then the enhance command runs and
\* is the only caller of checkHealth and executeWithFallback.
NextCli ==
    \/ \E r \in Registrations : registerProvider(r.name, r.class, r.apiKey)
    \/ \E n \in Names : setDefaultProvider(n)
    \/ \E e \in BOOLEAN, r \in Names \cup {Null}, st \in BOOLEAN, m \in Modes, ai \in BOOLEAN :
          enhance(e, [provider |-> r, stream |-> st, mode |-> m, useAI |-> ai])
    \/ EnhanceSelect
    \/ HealthProbe
    \/ HealthReturn
    \/ EnhanceChoose
    \/ EnhanceCall
    \/ EnhanceCatch
    \/ ExecPreferred
    \/ ExecOthers
    \/ ExecAllFailed
    \/ EnhanceFallbackEnd
    \/ \E c \in Classes : BackendChange(c)

SpecCli == Init /\ [][NextCli]_vars

\* The local provider: complete() called again and again, the clock running.
NextOllama ==
    \/ \E s \in Slots, p \in Prompts, m \in OllamaModels \cup {Null}, a \in BOOLEAN :
          OllamaComplete(s, p, m, a)
    \/ \E s \in Slots : OllamaListed(s)
    \/ \E s \in Slots : OllamaPulled(s)
    \/ \E s \in Slots : OllamaGenerated(s)
    \/ \E s \in Slots : CallEnd(s)
    \/ Tick

SpecOllama == Init /\ [][NextOllama]_vars

\* One prompt for the calls that are about usage and waiting.
UsagePrompts == {p \in Prompts : p.head = "h1" /\ p.tail = "x"}

\* Calls of both providers against backends that may stop answering.
Answers ==
    \/ \E s \in Slots : OllamaPinged(s)
    \/ \E s \in Slots : OllamaListed(s)
    \/ \E s \in Slots : OllamaPulled(s)
    \/ \E s \in Slots : OllamaGenerated(s)
    \/ \E s \in Slots : HFResponded(s, Texts)
    \/ \E s \in Slots : AbortTimerFires(s)
    \/ HFLoaded
    \/ HFWritten

NextWaits ==
    \/ \E s \in Slots : OllamaInitialize(s)
    \/ \E s \in Slots, p \in UsagePrompts, m \in OllamaModels, a \in BOOLEAN :
          OllamaComplete(s, p, m, a)
    \/ \E s \in Slots, p \in UsagePrompts, n \in BOOLEAN : HFComplete(s, p, Null, n)
    \/ \E s \in Slots : BackendSilent(s)
    \/ Answers
    \/ \E s \in Slots : CallEnd(s)

\* The enhance command on the hosted provider, with and without --no-cache,
\* the model answering each prompt with its own text.
CliModes == {"balanced", "coding", "nosuchmode"}
NextCliHF ==
    \/ \E s \in Slots, p \in Prompts, m \in CliModes, n \in BOOLEAN : CliEnhanceHF(s, p, m, n)
    \/ \E s \in Slots : HFResponded(s, {GeneratedFor(calls[s].prompt)})
    \/ HFLoaded
    \/ HFWritten
    \/ \E s \in Slots : CallEnd(s)

SpecCliHF == Init /\ [][NextCliHF]_vars

\* complete of both providers with requests that fail in every way.
NextErrors ==
    \/ \E s \in Slots, p \in UsagePrompts, m \in OllamaModels : OllamaComplete(s, p, m, FALSE)
    \/ \E s \in Slots : OllamaListed(s)
    \/ \E s \in Slots, f \in NetworkFailures : OllamaRejected(s, f)
    \/ \E s \in Slots, p \in Prompts : HFComplete(s, p, Null, FALSE)
    \/ \E s \in Slots, f \in NetworkFailures : HFRejected(s, f)
    \/ HFLoaded
    \/ \E s \in Slots : CallEnd(s)

SpecErrors == Init /\ [][NextErrors]_vars

\* Model selection of the local provider while models come and go.
SelectModes == {"coding", "balanced", "nosuchmode", "constructor"}
NextSelect ==
    \/ \E s \in Slots, m \in SelectModes : OllamaGetBestModelForMode(s, m)
    \/ \E s \in Slots : OllamaDetected(s)
    \/ \E m \in Library : OllamaInstalled(m)
    \/ \E m \in Library : OllamaRemoved(m)
    \/ \E s \in Slots : CallEnd(s)

SpecSelect == Init /\ [][NextSelect]_vars

\* Two complete calls of the local provider in flight at once: each is
\* suspended at its awaits while the other runs.
BothSlots == {"s1", "s2"}
InitConcurrent == InitOf(Missing, HuggingFaceProvider, BothSlots)
NextConcurrent ==
    \/ \E s \in BothSlots, p \in UsagePrompts : OllamaComplete(s, p, Null, FALSE)
    \/ \E s \in BothSlots : OllamaListed(s)
    \/ \E s \in BothSlots : OllamaGenerated(s)
    \/ \E s \in BothSlots : CallEnd(s)
    \/ Tick

SpecConcurrent == InitConcurrent /\ [][NextConcurrent]_vars

\* Node's event loop delivers every answer that arrived and fires every timer
\* that is due.
SpecWaits == Init /\ [][NextWaits]_vars /\ WF_vars(Answers)

\* The hosted provider: complete() called again and again for one prompt, with
\* and without the cache, the clock running.
UsageTiers == {Null, "bogus"}

NextHF ==
    \/ \E s \in Slots, p \in UsagePrompts, t \in UsageTiers, n \in BOOLEAN :
          HFComplete(s, p, t, n)
    \/ \E s \in Slots : HFResponded(s, Texts)
    \/ HFLoaded
    \/ HFWritten
    \/ \E s \in Slots : CallEnd(s)
    \/ Tick

SpecHF == Init /\ [][NextHF]_vars

\* The prompts and tiers of the cache's life, three keys, and the texts the
\* API answers with.
CacheInputs ==
    {<<p, t>> \in Prompts \X {Null, "fast"} : p.tail = "x" /\ (t = Null \/ p.head = "h1")}
CacheTexts == Texts \ {""}

\* The hosted provider's cache over days and processes: complete(),
\* clearCache() and savePersistentCache() called one after the other, the file
\* operations ending in any order, the process restarted.
NextHFCache ==
    \/ \E s \in Slots, i \in CacheInputs, n \in BOOLEAN : HFComplete(s, i[1], i[2], n)
    \/ \E s \in Slots : HFResponded(s, CacheTexts)
    \/ HFSavePersistentCache
    \/ HFWritten
    \/ HFLoaded
    \/ \E s \in Slots : HFClearCache(s)
    \/ \E s \in Slots : HFUnlinked(s)
    \/ HFRestart
    \/ \E s \in Slots : CallEnd(s)
    \/ LongTick

\* The same start, the cache file of an earlier process missing or unparsable.
InitHFCache == \E f \in {Missing, Corrupt} : InitWith(f, HuggingFaceProvider)

SpecHFCache == InitHFCache /\ [][NextHFCache]_vars

\* The prompts and modes of the AIEnhancer's life: three keys, and a mode
\* that is none.
AIInputs ==
    {<<p, m>> \in Prompts \X {"balanced", "coding", "nosuchmode"} :
        p.tail = "x" /\ (m = "balanced" \/ p.head = "h1")}

\* The AIEnhancer's cache over days and processes.
NextEnhancer ==
    \/ \E s \in Slots, i \in AIInputs, n \in BOOLEAN : AIEnhance(s, i[1], i[2], n)
    \/ \E s \in Slots : AIResponded(s, CacheTexts, {ErrAIRateLimit})
    \/ AISavePersistentCache
    \/ AIPersistEnsured
    \/ AIEntryRead
    \/ HFWritten
    \/ AILoaded
    \/ AICleanupRead
    \/ \E s \in Slots : AIClearCache(s)
    \/ \E s \in Slots : AIUnlinked(s)
    \/ AIRestart
    \/ \E s \in Slots : CallEnd(s)
    \/ LongerTick

InitEnhancer == \E f \in {Missing, Corrupt} : InitWith(f, AIEnhancer)

\* The AIEnhancer's retry loop: every way a callHFAPI can fail.
NextRetry ==
    \/ \E s \in Slots, i \in AIInputs, n \in BOOLEAN : AIEnhance(s, i[1], i[2], n)
    \/ \E s \in Slots : AIResponded(s, CacheTexts, AIFailures)
    \/ \E s \in Slots : AIRetry(s)
    \/ AIPersistEnsured
    \/ AIEntryRead
    \/ HFWritten
    \/ AILoaded
    \/ AICleanupRead
    \/ \E s \in Slots : CallEnd(s)

SpecRetry == InitEnhancer /\ [][NextRetry]_vars

SpecEnhancer == InitEnhancer /\ [][NextEnhancer]_vars

\* Either implementation of the cache, as the process was started with.
NextCache ==
    \/ impl = HuggingFaceProvider /\ NextHFCache
    \/ impl = AIEnhancer /\ NextEnhancer

InitCache == InitHFCache \/ InitEnhancer

SpecCache == InitCache /\ [][NextCache]_vars

(***************************************************************************)
(* Properties                                                              *)
(***************************************************************************)
\* The names of a sequence of call or error records.
ProvidersOf(log) == [i \in 1..Len(log) |-> log[i].provider]
NamesOf(log) == [i \in 1..Len(log) |-> log[i].name]
IsPrefix(s, t) == Len(s) <= Len(t) /\ \A i \in 1..Len(s) : s[i] = t[i]
Without(m, n) == SelectSeq(Keys(m), LAMBDA k : k # n)
Count(log, n) == Cardinality({i \in 1..Len(log) : log[i].provider = n})

\* The order in which a call that started on registry r with preferred name
\* pref owes its operation calls: pref if registered, then every other
\* registered name in registration order.
FallbackOrder(r, pref) ==
    IF Has(r.providers, pref)
    THEN <<pref>> \o Without(r.providers, pref)
    ELSE Keys(r.providers)

ExecFinished == xpc \in {"returned", "raised"}

\* C1: executeWithFallback calls the operation on the preferred provider (the
\* default when none is given) first, then on every other registered provider in
\* registration order, never twice on the same provider; it stops at the first
\* call that succeeds and returns that call's result.
C1_FallbackOrder ==
    xpc # "idle" =>
        /\ IsPrefix(ProvidersOf(xcalls), FallbackOrder(xpre, xpref))
        /\ \A i \in 1..Len(xcalls) : xcalls[i].ok => i = Len(xcalls) /\ xpc = "returned"
        /\ xpc = "returned" =>
               /\ xcalls # <<>>
               /\ xcalls[Len(xcalls)].ok
               /\ xresult = xcalls[Len(xcalls)].provider
        /\ xpc = "raised" => ProvidersOf(xcalls) = FallbackOrder(xpre, xpref)

\* C1 witness: the preferred provider is not the first registered one; it and
\* the next provider threw and the third call succeeded.
C1_Witness ==
    /\ xpc = "returned"
    /\ Len(xcalls) = 3
    /\ xcalls[1].provider = xpref
    /\ providers[1].name # xpref

\* C2 (as claimed): executeWithFallback raises iff the operation failed on every
\* registered provider, and the error lists exactly one entry per registered
\* provider and no entry for a name that is not registered.
C2_Original ==
    /\ xpc = "returned" => \E i \in 1..Len(xcalls) : xcalls[i].ok
    /\ xpc = "raised" =>
           /\ \A n \in KeySet(providers) :
                  \E i \in 1..Len(xcalls) : xcalls[i].provider = n /\ ~xcalls[i].ok
           /\ \A n \in KeySet(providers) : Count(xerrors, n) = 1
           /\ \A i \in 1..Len(xerrors) : xerrors[i].provider \in KeySet(providers)

\* C2 (amended): executeWithFallback raises iff the operation failed on every
\* registered provider; the error lists exactly one entry per registered
\* provider, and one more, the first, for the preferred name when that name is
\* not registered (the not-found error of getProvider), and nothing else.
C2_Amended ==
    /\ xpc = "returned" => \E i \in 1..Len(xcalls) : xcalls[i].ok
    /\ xpc = "raised" =>
           /\ \A n \in KeySet(providers) :
                  \E i \in 1..Len(xcalls) : xcalls[i].provider = n /\ ~xcalls[i].ok
           /\ \A n \in KeySet(providers) : Count(xerrors, n) = 1
           /\ \A i \in 1..Len(xerrors) :
                  \/ /\ xerrors[i].provider \in KeySet(providers)
                     /\ xerrors[i].error = ErrOperation
                  \/ /\ i = 1
                     /\ xerrors[i].provider = xpref
                     /\ xerrors[i].error = ErrNotFound
           /\ Len(xerrors) = Len(providers)
                               + (IF xpref # Null /\ ~Has(providers, xpref) THEN 1 ELSE 0)

\* C2 witness: the call raised after an unknown preferred name and two
\* registered providers that both threw.
C2_Witness ==
    /\ xpc = "raised"
    /\ Len(providers) = 2
    /\ Len(xerrors) = 3
    /\ xerrors[1].error = ErrNotFound

\* A step of the running enhance command, or of the registry call it awaits.
EnhanceProgress ==
    \/ EnhanceSelect \/ HealthProbe \/ HealthReturn \/ EnhanceChoose \/ EnhanceCall
    \/ EnhanceCatch \/ ExecPreferred \/ ExecOthers \/ ExecAllFailed \/ EnhanceFallbackEnd

C4_DefaultIsRegistered ==
    defaultProvider = Null \/ Has(providers, defaultProvider)

\* C4 witness: a setDefaultProvider call for an unknown name has failed on a
\* registry that has a default and two providers.
C4_Witness ==
    /\ last.op = "setDefaultProvider"
    /\ last.raised
    /\ defaultProvider # Null
    /\ Len(providers) = 2

\* C5 (as claimed): registerProvider never raises; when the constructor throws
\* the map and the default are unchanged and the name is absent from the
\* registry; when it succeeds the provider is stored under the name and becomes
\* the default only if none was set before.
C5_Original ==
    last.op = "registerProvider" =>
        /\ ~last.raised
        /\ last.threw =>
               /\ providers = last.pre.providers
               /\ defaultProvider = last.pre.defaultProvider
               /\ ~Has(providers, last.name)
        /\ ~last.threw =>
               /\ Has(providers, last.name)
               /\ defaultProvider =
                      (IF last.pre.defaultProvider = Null THEN last.name
                       ELSE last.pre.defaultProvider)

\* C5 (amended): as claimed, except that after a constructor that throws the
\* name is absent from the registry only if it was absent before the call: a
\* provider registered under that name by an earlier call stays.
C5_Amended ==
    last.op = "registerProvider" =>
        /\ ~last.raised
        /\ last.threw =>
               /\ providers = last.pre.providers
               /\ defaultProvider = last.pre.defaultProvider
               /\ Has(providers, last.name) <=> Has(last.pre.providers, last.name)
        /\ ~last.threw =>
               /\ Has(providers, last.name)
               /\ KeySet(providers) = KeySet(last.pre.providers) \cup {last.name}
               /\ defaultProvider =
                      (IF last.pre.defaultProvider = Null THEN last.name
                       ELSE last.pre.defaultProvider)

\* C5 witness: a registration whose constructor threw, on a registry that
\* already holds a provider and a default.
C5_Witness ==
    /\ last.op = "registerProvider"
    /\ last.threw
    /\ Len(providers) >= 1
    /\ defaultProvider # Null

\* C6: getProvider() returns the provider registered under the default name;
\* getProvider of an unregistered name, and getProvider() on an empty registry,
\* throw the not-found error listing the registered names; no call returns an
\* absent value.
C6_GetProvider ==
    last.op = "getProvider" =>
        /\ (last.name = Null /\ defaultProvider # Null) =>
               /\ ~last.raised
               /\ last.value.name = defaultProvider
               /\ \E i \in 1..Len(providers) : providers[i] = last.value
        /\ (last.name # Null /\ ~Has(providers, last.name)) =>
               last.raised /\ last.available = Keys(providers)
        /\ (last.name = Null /\ providers = <<>>) =>
               last.raised /\ last.available = <<>>
        /\ ~last.raised => last.value # NoProvider

\* C6 witness: getProvider of an unregistered name threw, listing two names.
C6_Witness ==
    /\ last.op = "getProvider"
    /\ last.raised
    /\ last.name # Null
    /\ Len(last.available) = 2

\* C7: executeWithFallback leaves the providers map, its order and
\* defaultProvider as they were when it was called, and a checkHealth that
\* follows reports every provider whose operation threw.
C7_ExecFrame ==
    /\ (xpc # "idle" /\ last.op = "executeWithFallback") =>
           /\ providers = xpre.providers
           /\ defaultProvider = xpre.defaultProvider
    /\ (ExecFinished /\ hpc = "done") =>
           \A i \in 1..Len(xcalls) : ~xcalls[i].ok => Has(health, xcalls[i].provider)

\* C7 witness: two providers threw, the third succeeded, and checkHealth has
\* run since.
C7_Witness ==
    /\ xpc = "returned"
    /\ Len(xcalls) = 3
    /\ hpc = "done"
    /\ Len(health) = 3

\* C8: checkHealth and compareProviders return exactly one entry per registered
\* provider, in registration order; every provider is probed once, a probe that
\* throws becomes an unhealthy (success = false) entry with the error message,
\* and the providers after it are still probed.
C8_OneEntryEach ==
    /\ hpc = "loop" => NamesOf(hprobes) = SubSeq(Keys(providers), 1, hidx - 1)
    /\ hpc = "done" =>
           /\ NamesOf(health) = Keys(providers)
           /\ NamesOf(hprobes) = Keys(providers)
           /\ \A i \in 1..Len(health) :
                  /\ hprobes[i].threw =>
                         health[i].status = "unhealthy" /\ health[i].error = hprobes[i].error
                  /\ ~hprobes[i].threw =>
                         health[i].status = "healthy" /\ health[i].error = Null
    /\ cpc = "loop" => NamesOf(ccalls) = SubSeq(Keys(providers), 1, cidx - 1)
    /\ cpc = "done" =>
           /\ NamesOf(results) = Keys(providers)
           /\ NamesOf(ccalls) = Keys(providers)
           /\ \A i \in 1..Len(results) :
                  /\ ccalls[i].threw =>
                         ~results[i].success /\ results[i].error = ccalls[i].error
                  /\ ~ccalls[i].threw => results[i].success

\* C8 witness: checkHealth returned three entries, the first unhealthy and a
\* later one healthy.
C8_Witness ==
    /\ hpc = "done"
    /\ Len(health) = 3
    /\ health[1].status = "unhealthy"
    /\ health[3].status = "healthy"

\* C9 (as claimed): initialize() fails whenever the provider's backend is
\* unreachable, so checkHealth reports no provider healthy whose backend could
\* not be reached when it was probed.
C9_HealthyImpliesReachable ==
    \A i \in 1..Len(hprobes) :
        /\ ~hprobes[i].reachable => ~hprobes[i].initialized
        /\ health[i].status = "healthy" => hprobes[i].reachable

CallStarted(s) == calls[s].pc # "idle"

\* C10 (as claimed): complete() checks the rate limit before any network call:
\* a call that starts when usage.requests has reached requestsPerHour within
\* the current window sends nothing and fails with the rate-limit error.
C10_RateLimitBeforeNetwork ==
    \A s \in Slots :
        (CallStarted(s) /\ calls[s].exhausted) =>
            /\ calls[s].sent = <<>>
            /\ calls[s].pc = "failed"
            /\ calls[s].error = ErrRateLimit

\* The same, of the local provider alone.
OllamaChecksRateLimit ==
    \A s \in Slots :
        (CallStarted(s) /\ calls[s].class = OllamaProvider /\ calls[s].exhausted) =>
            /\ calls[s].sent = <<>>
            /\ calls[s].pc = "failed"
            /\ calls[s].error = ErrRateLimit

\* A call of the local provider was refused for its used-up budget.
OllamaRefused ==
    \E s \in Slots : calls[s].class = OllamaProvider /\ calls[s].exhausted

(***************************************************************************)
(* Usage counters, credentials, pulling                                    *)
(***************************************************************************)
\* C11 (as claimed): within a reset window the usage counters never decrease,
\* and trackUsage restarts the window when more than an hour has passed since
\* lastReset: a step that counts a request then leaves requests = 1 and
\* lastReset = now, so the counters hold no request older than one window.
C11_UsageWindow ==
    [][\A c \in Classes :
          /\ usage'[c].lastReset = usage[c].lastReset =>
                /\ usage'[c].requests >= usage[c].requests
                /\ usage'[c].tokens >= usage[c].tokens
          /\ (usage'[c].requests > usage[c].requests /\ now - usage[c].lastReset > Hour) =>
                /\ usage'[c].requests = 1
                /\ usage'[c].lastReset = now]_vars

\* C12 (as claimed): a hosted provider whose credential lacks the prefix or
\* the length fails in its constructor, so none is ever in the registry.
C12_MalformedNeverRegistered ==
    \A i \in 1..Len(providers) :
        providers[i].class = HuggingFaceProvider => providers[i].apiKey # KeyMalformed

Sent(c, endpoint) == \E i \in 1..Len(c.sent) : c.sent[i] = endpoint

\* The first half of C13: with autoPull false and the model not installed,
\* complete() asks for neither a pull nor a generation, and once the list of
\* models was answered it fails with the model-not-found error.
OllamaNoPullWhenForbidden ==
    \A s \in Slots :
        LET c == calls[s] IN
        (c.class = OllamaProvider /\ ~c.autoPull /\ c.model \notin installed) =>
            /\ ~Sent(c, "POST /api/pull")
            /\ ~Sent(c, "POST /api/generate")
            /\ c.pc # "returned"
            /\ (c.pc = "failed" /\ c.error \notin {ErrRateLimit, ErrListModels}) =>
                   c.error = ErrModelNotFound

KeysOf(c) == [i \in 1..Len(c) |-> c[i].key]
CachePairs(c) == {<<c[i].key, c[i].value>> : i \in 1..Len(c)}
FilePairs(f) == {<<f.entries[i].key, f.entries[i].value>> : i \in 1..Len(f.entries)}
IsCompleteCall(c) == c.class \in {HuggingFaceProvider, AIEnhancer} /\ c.key # NoKey

\* C14 (as claimed): once a value, the empty string included, is stored under
\* a key, a later request for that key within the time to live that does not
\* disable caching returns the value and makes no outbound call.
C14_StoredIsReturned ==
    \A s \in Slots :
        LET c == calls[s] IN
        (IsCompleteCall(c) /\ c.stored # Null /\ ~c.noCache) =>
            /\ c.sent = <<>>
            /\ c.pc = "returned"
            /\ c.result = c.stored

\* C15 (as claimed): a response stored at time t is never returned from the
\* cache at or after t + TTL, whatever gets, sets, persists, restarts and
\* loads lie between; and a get leaves the expiry of the entries as it was.
C15_ExpiresAfterTTL ==
    [][\A s \in Slots :
          (calls[s].pc = "idle" /\ IsCompleteCall(calls'[s])) =>
              /\ (calls'[s].pc = "returned") =>
                     now < CacheEntryOf(hfcache, calls'[s].key).origin + TTL
              /\ \A i \in 1..Len(hfcache), j \in 1..Len(hfcache') :
                     hfcache[i].key = hfcache'[j].key =>
                         hfcache[i].start = hfcache'[j].start]_vars

C17_EvictedIsOnDisk ==
    (evicted # NoEntry /\ pending = {} /\ file.state = "data"
        /\ FilePairs(file) = CachePairs(hfcache)) =>
        <<evicted.key, evicted.value>> \in FilePairs(file)

\* C18 (as claimed): when clearCache has returned, its unlink done, and every
\* file operation started before or during it has ended, the memory is empty
\* and the cache file does not exist.
C18_ClearedStaysCleared ==
    (cleared = "unlinked" /\ pending = {}) =>
        /\ hfcache = <<>>
        /\ file.state = "missing"

C20_LoadThenPersist ==
    (trip.stage = "saving" /\ pending = {}) =>
        /\ FilePairs(file) = trip.before
        /\ \A i, j \in 1..Len(file.entries) :
               file.entries[i].key = file.entries[j].key => i = j

(***************************************************************************)
(* Waiting for the backend                                                 *)
(***************************************************************************)
\* C21 (as claimed): every request a provider sends has a bounded wait: a
\* call whose backend never answers comes to an end, as a failure.
C21_SilentBackendTimesOut ==
    \A s \in Slots : calls[s].silent ~> calls[s].pc = "failed"

\* The part that holds: the two requests sent with a timer come to an end.
TimedRequestsEnd ==
    \A s \in Slots : (calls[s].silent /\ HasAbortTimer(calls[s].pc)) ~> calls[s].pc = "failed"


(***************************************************************************)
(* The enhance command and the providers it invokes                        *)
(***************************************************************************)
\* C22 (as claimed): when the provider selected with --provider has failed,
\* the command comes to the static template only after the operation was
\* tried on every other registered provider.
C22_FailoverFromSelected ==
    (epc = "done" /\ eopts.provider # Null /\ ecalled # Null /\ eerror # Null
        /\ eoutcome.kind = "template") =>
        \A i \in 1..Len(providers) :
            providers[i].name = ecalled \/ Count(xcalls, providers[i].name) >= 1

\* C28 (as claimed): in a run of the command without --provider (and without
\* --stream), the enhance of each provider is invoked at most once, the first attempt and the calls
\* of executeWithFallback taken together.
C28_InvokedAtMostOnce ==
    (eopts.provider = Null /\ ~eopts.stream /\ epc \in {"fallback", "done"}) =>
        \A n \in Names : Count(xcalls, n) + (IF ecalled = n THEN 1 ELSE 0) <= 1


(***************************************************************************)
(* The retry loop of AIEnhancer.enhance                                    *)
(***************************************************************************)
IsEnhancerCall(c) == c.class = AIEnhancer /\ c.key # NoKey

\* C23 (as claimed): a callHFAPI that fails with the rate-limit error is
\* followed, while attempts are left, by a wait and another attempt, and each
\* wait is twice the one before.
C23_RateLimitRetried ==
    \A s \in Slots :
        LET c == calls[s] IN
        IsEnhancerCall(c) =>
            /\ \A i \in 1..Len(c.logged) :
                   (c.logged[i] = ErrAIRateLimit /\ i < MaxAttempts) => Len(c.sent) > i
            /\ \A j \in 1..(Len(c.waits) - 1) : c.waits[j + 1] = 2 * c.waits[j]

\* C27 (as claimed): one enhance sends at most three requests, and none after
\* a request of its own was answered successfully.
C27_BoundedRequests ==
    \A s \in Slots :
        LET c == calls[s] IN
        IsEnhancerCall(c) =>
            /\ Len(c.sent) <= MaxAttempts
            /\ c.answered # 0 => Len(c.sent) = c.answered


(***************************************************************************)
(* The enhance command on the hosted provider's cache                      *)
(***************************************************************************)
\* C24 (as claimed): a request of the enhance command with --no-cache is
\* never served from the cache: the provider sends its request even if a
\* response is cached under the key.
C24_NoCacheSkipsCache ==
    [][\A s \in Slots, p \in Prompts, m \in CliModes :
          CliEnhanceHF(s, p, m, TRUE) =>
              calls'[s].pc = "fetching" /\ calls'[s].sent # <<>>]_vars

\* C30 (as claimed): a response returned from the cache was generated for the
\* prompt of the request that receives it.
C30_CachedForThisPrompt ==
    \A s \in Slots :
        (calls[s].class = HuggingFaceProvider /\ calls[s].pc = "returned"
            /\ calls[s].sent = <<>>) =>
            calls[s].result = GeneratedFor(calls[s].prompt)


(***************************************************************************)
(* The error taxonomy                                                      *)
(***************************************************************************)
\* The class of the taxonomy a network failure belongs to.
ClassOfFailure(failure) ==
    CASE failure.code = "ECONNREFUSED" -> "ConnectionRefused"
      [] failure.code = "ETIMEDOUT" -> "Timeout"
      [] failure.status = "401" -> "AuthenticationFailed"
      [] failure.status = "404" -> "ModelNotFound"
      [] failure.status \in {"500", "503"} -> "ServerError"
      [] failure.status = "429" -> "RateLimitExceeded"
      [] OTHER -> "UnknownProviderError"
\* The class of the taxonomy a surfaced message tells.
ClassOfMessage(message) ==
    CASE message = Surfaced([provider |-> HuggingFaceProvider, text |-> MsgRateLimit])
            -> "RateLimitExceeded"
      [] \E p \in {HuggingFaceProvider, OllamaProvider} :
            message = Surfaced([provider |-> p, text |-> MsgRefused]) -> "ConnectionRefused"
      [] \E p \in {HuggingFaceProvider, OllamaProvider} :
            message = Surfaced([provider |-> p, text |-> MsgTimedOut]) -> "Timeout"
      [] \E p \in {HuggingFaceProvider, OllamaProvider} :
            message = Surfaced([provider |-> p, text |-> MsgAuth]) -> "AuthenticationFailed"
      [] \E p \in {HuggingFaceProvider, OllamaProvider} :
            message = Surfaced([provider |-> p, text |-> MsgNotFound]) -> "ModelNotFound"
      [] \E p \in {HuggingFaceProvider, OllamaProvider} :
            message = Surfaced([provider |-> p, text |-> MsgServer]) -> "ServerError"
      [] OTHER -> "UnknownProviderError"

\* C25 (as claimed): a failure of complete's network call is surfaced as its
\* class of the taxonomy, and as the unknown bucket only when it belongs to no
\* other class.
C25_SurfacedAsItsClass ==
    \A s \in Slots :
        (calls[s].pc = "failed" /\ calls[s].cause # NoFailure) =>
            ClassOfMessage(calls[s].error) = ClassOfFailure(calls[s].cause)


(***************************************************************************)
(* Model selection of the local provider                                   *)
(***************************************************************************)
\* The selection as claimed, for a mode and the list of the installed models:
\* the installed model matching the earliest preference of the mode (of
\* balanced for a mode without preferences), else the first installed model,
\* else the default model.
ClaimedPrefs(mode) == Preferences(IF mode \in PreferenceModes THEN mode ELSE "balanced")
ClaimedSelection(mode, modelNames) ==
    IF modelNames = <<>> THEN DefaultModel
    ELSE LET matching == {i \in 1..Len(ClaimedPrefs(mode)) :
                            \E j \in 1..Len(modelNames) :
                                StartsWith(modelNames[j], ClaimedPrefs(mode)[i])}
         IN IF matching = {} THEN modelNames[1]
            ELSE LET i == CHOOSE i \in matching : \A k \in matching : i <= k
                     j == CHOOSE j \in 1..Len(modelNames) :
                              /\ StartsWith(modelNames[j], ClaimedPrefs(mode)[i])
                              /\ \A k \in 1..(j - 1) :
                                     ~StartsWith(modelNames[k], ClaimedPrefs(mode)[i])
                 IN modelNames[j]

\* C26 (as claimed): getBestModelForMode returns the claimed selection from
\* the models installed when it returns, in some order of listing, or the
\* default model when listing failed.
C26_SelectsByPreference ==
    [][\A s \in Slots :
          (calls[s].pc # "returned" /\ calls'[s].pc = "returned" /\ calls'[s].mode # Null) =>
              \/ calls'[s].error = ErrListModels /\ calls'[s].result = DefaultModel
              \/ /\ calls'[s].error = Null
                 /\ \E l \in Listings(installed) :
                        calls'[s].result = ClaimedSelection(calls'[s].mode, l)]_vars

\* The selection of a first use with a mode that has preferences or none and is
\* no inherited property name is the claimed one.
FirstUseSelects ==
    [][\A s \in Slots :
          (calls[s].pc = "detecting" /\ calls'[s].pc = "returned"
              /\ calls'[s].error = Null /\ calls[s].mode \notin InheritedKeys) =>
              \E l \in Listings(installed) :
                  calls'[s].result = ClaimedSelection(calls'[s].mode, l)]_vars


(***************************************************************************)
(* Concurrent calls and the hourly budget                                  *)
(***************************************************************************)
\* C29 (as claimed): however complete calls of the local provider
\* interleave, its count of requests stays within requestsPerHour.
C29_WithinBudget == usage[OllamaProvider].requests <= HourlyBudget

====
